---- MODULE Spec2Model ----
(***************************************************************************)
(* A model of the slotted heap page of src/heappage.cpp (class HeapPage).  *)
(*                                                                         *)
(* The page is one fixed buffer of PAGE_SIZE bytes holding a header, a     *)
(* slot directory that grows from the header, and a record region that     *)
(* grows from the page tail.  The three typed views the code casts onto    *)
(* the buffer are kept as three fields of the variable page:               *)
(*   hdr   the HeapPageHeader at bytes [0, sizeof(HeapPageHeader))         *)
(*   dir   the SlotInfo array behind the header, entry i at byte           *)
(*         sizeof(HeapPageHeader) + i * sizeof(SlotInfo)                   *)
(*   data  the bytes behind the header, read and written as record bytes   *)
(* Entries of dir at or above hdr.capacity keep whatever was last written  *)
(* to them, as the bytes of the buffer do.  The views are disjoint as long *)
(* as free_space_begin <= free_space_end, which RegionOrdering checks.     *)
(*                                                                         *)
(* The page is scaled down: PAGE_SIZE is a bound of the model, the sizes   *)
(* of the two structs are the program's.  Unsigned 32-bit arithmetic is    *)
(* modelled with wrap-around at UINT_WRAP.                                 *)
(***************************************************************************)
EXTENDS Integers, Sequences, FiniteSets, TLC

\* ---------------------------------------------------------------- bounds
\* Size of the page buffer in bytes (4096 in the program; scaled down).
PAGE_SIZE == 52
\* Longest of the short records callers pass.
MaxRecLen == 2

\* ------------------------------------------------------------- constants
\* sizeof(HeapPageHeader): six 32-bit fields.
SizeofHeapPageHeader == 24
\* sizeof(SlotInfo): two 32-bit fields.
SizeofSlotInfo == 8
\* Unsigned arithmetic wraps at this modulus (2^32 in the program; the
\* model checker's integers are 32-bit signed, so the word is 30 bits).
UINT_WRAP == 2^30
\* All-ones sentinel of a free slot.
INVALID_SLOT_OFFSET == UINT_WRAP - 1
\* Sentinel page number.
INVALID_PAGE_NUM == UINT_WRAP - 1
\* Sentinel slot id the scanner returns at the end of the directory.
INVALID_SLOT_ID == UINT_WRAP - 1

U32(x) == x % UINT_WRAP

\* Number of SlotInfo entries the buffer has room for behind the header.
DirRoom == (PAGE_SIZE - SizeofHeapPageHeader) \div SizeofSlotInfo
DirIndex == 0 .. (DirRoom - 1)
\* Byte positions behind the header.
BodyBytes == SizeofHeapPageHeader .. (PAGE_SIZE - 1)

\* A Data object as the callers build it (setRecData): len bytes, all set
\* to one fill value.  The page copies record bytes and never interprets
\* them, so two fill values, both different from the zero bytes of a fresh
\* buffer, are enough to tell any two records apart.
FillValues == {1, 2}
MkData(len, fill) == [i \in 1 .. len |-> fill]
\* The largest record a freshly initialized page accepts.
MAX_RECORD_SIZE == PAGE_SIZE - SizeofHeapPageHeader - SizeofSlotInfo
\* The lengths of the records callers pass: none, short ones, the largest
\* record and one byte more.
DataLengths == (0 .. MaxRecLen) \cup {MAX_RECORD_SIZE, MAX_RECORD_SIZE + 1}
DataInputs == {MkData(len, fill) : len \in DataLengths, fill \in FillValues}
\* The slot ids callers pass: every directory index and one beyond.
SlotIds == 0 .. DirRoom
\* The capacities of the buffers callers pass to getRecord: too small for,
\* exactly as long as, and longer than the short records, and PAGE_SIZE.
BufCapacities == (0 .. MaxRecLen) \cup {PAGE_SIZE}
\* The records of the callers that run a scanner next to their calls: every
\* length, one fill value.
ScanDataInputs == {MkData(len, 1) : len \in DataLengths}
\* The records a caller stores while it scans: none, one byte, the longest.
InterleavedDataInputs == {MkData(len, 1) : len \in {0, 1, MaxRecLen}}

\* The page numbers the heap-file layer passes to setPrev and setNext.
PageNums == {1, 2}

VARIABLES page, expected, insertsOnly, last, cur_slot, links, written, scan
vars == <<page, expected, insertsOnly, last, cur_slot, links, written, scan>>

\* ------------------------------------------------------------ outcomes
Ok == "ok"
EmptyDataHeapPage == "EmptyDataHeapPage"
InsufficientSpaceHeapPage == "InsufficientSpaceHeapPage"
InvalidSlotIdHeapPage == "InvalidSlotIdHeapPage"
InvalidSizeData == "InvalidSizeData"

\* The result of a call: the outcome (Ok or the exception thrown), the page
\* the call leaves behind, the value it returns and the bytes it hands out.
Result(st, p, ret, out) == [st |-> st, page |-> p, ret |-> ret, out |-> out]

\* ------------------------------------------------------- HeapPage methods
\* An initializeHeader that starts the free space at the start of the buffer.
initializeHeaderNoHeaderRoom ==
  [hdr  |-> [prev_page |-> INVALID_PAGE_NUM,
             next_page |-> INVALID_PAGE_NUM,
             free_space_begin |-> 0,
             free_space_end |-> PAGE_SIZE,
             size |-> 0,
             capacity |-> 0],
   dir  |-> [i \in DirIndex |-> [offset |-> 0, length |-> 0]],
   data |-> [b \in BodyBytes |-> 0]]

\* A buffer as the allocator hands it over, with its header initialized.
initializeHeader ==
  [hdr  |-> [prev_page |-> INVALID_PAGE_NUM,
             next_page |-> INVALID_PAGE_NUM,
             free_space_begin |-> SizeofHeapPageHeader,
             free_space_end |-> PAGE_SIZE,
             size |-> 0,
             capacity |-> 0],
   dir  |-> [i \in DirIndex |-> [offset |-> 0, length |-> 0]],
   data |-> [b \in BodyBytes |-> 0]]

\* getFreeSpace that forgets the slot entry a full directory has to grow by.
getFreeSpaceRaw(p) ==
  U32(p.hdr.free_space_end - p.hdr.free_space_begin)

\* getFreeSpace that charges for a new slot entry even when a free one exists.
getFreeSpaceAlwaysSlot(p) ==
  LET size == U32(p.hdr.free_space_end - p.hdr.free_space_begin)
  IN  IF size >= SizeofSlotInfo THEN U32(size - SizeofSlotInfo) ELSE 0

getFreeSpace(p) ==
  LET size == U32(p.hdr.free_space_end - p.hdr.free_space_begin)
  IN  IF p.hdr.size = p.hdr.capacity
        THEN IF size >= SizeofSlotInfo THEN U32(size - SizeofSlotInfo) ELSE 0
        ELSE size

\* isFull that forgets that a page without records is not full.
isFullNoEmptyTest(p) == p.hdr.size = p.hdr.capacity

isFull(p) == p.hdr.size = p.hdr.capacity /\ p.hdr.size # 0

isEmpty(p) == p.hdr.size = 0

getNumRecs(p) == p.hdr.size

setNext(p, page_num) == [p EXCEPT !.hdr.next_page = page_num]

\* setPrev pasted from setNext with the field left as it was.
setPrevWritesNext(p, page_num) == [p EXCEPT !.hdr.next_page = page_num]

setPrev(p, page_num) == [p EXCEPT !.hdr.prev_page = page_num]

getNext(p) == p.hdr.next_page

getPrev(p) == p.hdr.prev_page

\* _getSlotInfo throws when the slot id is not below capacity.
_getSlotInfoThrows(p, slot_id) == slot_id >= p.hdr.capacity

\* The bytes [from, from + n) of the buffer as a sequence.
BytesAt(p, from, n) == [i \in 1 .. n |-> p.data[from + i - 1]]

\* memcpy(data + dst, bytes, Len(bytes)).
Memcpy(data, dst, bytes) ==
  [b \in BodyBytes |->
     IF b >= dst /\ b < dst + Len(bytes) THEN bytes[b - dst + 1] ELSE data[b]]

\* A compaction that adjusts the slot entries but leaves the bytes in place.
MemmoveNone(data, dst, src, n) == data

\* memmove(data + dst, data + src, n): the n bytes are read before any is
\* written.
Memmove(data, dst, src, n) ==
  [b \in BodyBytes |->
     IF b >= dst /\ b < dst + n /\ (b - dst + src) \in BodyBytes
       THEN data[b - dst + src] ELSE data[b]]

\* _insertRecord that copies the record below free_space_end and leaves
\* free_space_end where it was.
_insertRecordKeepsEnd(p, slot_id, record_data) ==
  IF slot_id >= p.hdr.capacity
    THEN Result(InvalidSlotIdHeapPage, p, 0, <<>>)
    ELSE
      LET record_length == Len(record_data)
          record_offset == U32(p.hdr.free_space_end - record_length)
          q == [hdr  |-> [p.hdr EXCEPT !.size = U32(@ + 1)],
                dir  |-> [p.dir EXCEPT ![slot_id] =
                            [offset |-> record_offset, length |-> record_length]],
                data |-> Memcpy(p.data, record_offset, record_data)]
      IN  Result(Ok, q, 0, <<>>)

\* _insertRecord that does not count the record it stores.
_insertRecordNoCount(p, slot_id, record_data) ==
  IF slot_id >= p.hdr.capacity
    THEN Result(InvalidSlotIdHeapPage, p, 0, <<>>)
    ELSE
      LET record_length == Len(record_data)
          record_offset == U32(p.hdr.free_space_end - record_length)
          q == [hdr  |-> [p.hdr EXCEPT !.free_space_end = record_offset],
                dir  |-> [p.dir EXCEPT ![slot_id] =
                            [offset |-> record_offset, length |-> record_length]],
                data |-> Memcpy(p.data, record_offset, record_data)]
      IN  Result(Ok, q, 0, <<>>)

_insertRecord(p, slot_id, record_data) ==
  IF slot_id >= p.hdr.capacity
    THEN Result(InvalidSlotIdHeapPage, p, 0, <<>>)
    ELSE
      LET record_length == Len(record_data)
          record_offset == U32(p.hdr.free_space_end - record_length)
          q == [hdr  |-> [p.hdr EXCEPT !.free_space_end = record_offset,
                                       !.size = U32(@ + 1)],
                dir  |-> [p.dir EXCEPT ![slot_id] =
                            [offset |-> record_offset, length |-> record_length]],
                data |-> Memcpy(p.data, record_offset, record_data)]
      IN  Result(Ok, q, 0, <<>>)

\* A deleted slot entry that is zeroed instead of marked invalid.
MarkFreeZeroOffset(dir, slot_id) ==
  [dir EXCEPT ![slot_id] = [offset |-> 0, length |-> 0]]

\* A deleted slot entry that keeps the length of the record it held.
MarkFreeKeepLength(dir, slot_id) ==
  [dir EXCEPT ![slot_id].offset = INVALID_SLOT_OFFSET]

\* The slot entry of a deleted record.
MarkFree(dir, slot_id) ==
  [dir EXCEPT ![slot_id] = [offset |-> INVALID_SLOT_OFFSET, length |-> 0]]

\* The loop moving every record below the deleted one up by one byte.
AdjustOffsetsByOne(dir, capacity, offset, length) ==
  [i \in DirIndex |->
     IF i < capacity /\ dir[i].offset # INVALID_SLOT_OFFSET /\ dir[i].offset < offset
       THEN [dir[i] EXCEPT !.offset = U32(@ + 1)]
       ELSE dir[i]]

\* The loop without its offset test: every live record moves up.
AdjustOffsetsAll(dir, capacity, offset, length) ==
  [i \in DirIndex |->
     IF i < capacity /\ dir[i].offset # INVALID_SLOT_OFFSET
       THEN [dir[i] EXCEPT !.offset = U32(@ + length)]
       ELSE dir[i]]

\* The loop of _deleteRecord over the slot directory: every live entry below
\* capacity whose record lay below the deleted one moves up by its length.
AdjustOffsets(dir, capacity, offset, length) ==
  [i \in DirIndex |->
     IF i < capacity /\ dir[i].offset # INVALID_SLOT_OFFSET /\ dir[i].offset < offset
       THEN [dir[i] EXCEPT !.offset = U32(@ + length)]
       ELSE dir[i]]

\* _deleteRecord that does not give the record's bytes back to the free space.
_deleteRecordKeepEnd(p, slot_id) ==
  IF _getSlotInfoThrows(p, slot_id)
    THEN Result(InvalidSlotIdHeapPage, p, 0, <<>>)
  ELSE IF p.dir[slot_id].offset = INVALID_SLOT_OFFSET \/ slot_id >= p.hdr.capacity
    THEN Result(InvalidSlotIdHeapPage, p, 0, <<>>)
  ELSE
    LET offset == p.dir[slot_id].offset
        length == p.dir[slot_id].length
        fse    == p.hdr.free_space_end
        size   == U32(offset - fse)
    IN  Result(Ok, [hdr  |-> [p.hdr EXCEPT !.size = U32(@ - 1)],
                    dir  |-> AdjustOffsets(MarkFree(p.dir, slot_id),
                                           p.hdr.capacity, offset, length),
                    data |-> Memmove(p.data, fse + length, fse, size)],
               size, <<>>)

\* The value returned on success is the number of bytes memmove relocated.
_deleteRecord(p, slot_id) ==
  IF _getSlotInfoThrows(p, slot_id)
    THEN Result(InvalidSlotIdHeapPage, p, 0, <<>>)
  ELSE IF p.dir[slot_id].offset = INVALID_SLOT_OFFSET \/ slot_id >= p.hdr.capacity
    THEN Result(InvalidSlotIdHeapPage, p, 0, <<>>)
  ELSE
    LET offset == p.dir[slot_id].offset
        length == p.dir[slot_id].length
        fse    == p.hdr.free_space_end
        dir1   == MarkFree(p.dir, slot_id)
        hdr1   == [p.hdr EXCEPT !.size = U32(@ - 1)]
    IN  IF U32(offset + length) = fse
          THEN \* do not compact
               Result(Ok, [hdr  |-> [hdr1 EXCEPT !.free_space_end = U32(fse + length)],
                           dir  |-> dir1,
                           data |-> p.data], 0, <<>>)
          ELSE \* compact
               LET size == U32(offset - fse)
               IN  Result(Ok, [hdr  |-> [hdr1 EXCEPT !.free_space_end = U32(fse + length)],
                               dir  |-> AdjustOffsets(dir1, p.hdr.capacity, offset, length),
                               data |-> Memmove(p.data, fse + length, fse, size)],
                          size, <<>>)

\* A search that takes the last free entry below capacity instead of the first.
FindFreeSlotLast(p, i) ==
  LET free == {j \in DirIndex : j >= i /\ j < p.hdr.capacity
                                  /\ p.dir[j].offset = INVALID_SLOT_OFFSET}
  IN  IF free = {} THEN INVALID_SLOT_OFFSET
      ELSE CHOOSE j \in free : \A k \in free : k <= j

\* A search that starts at the second directory entry.
FindFreeSlotSkipFirst(p, i) ==
  LET free == {j \in DirIndex : j > i /\ j < p.hdr.capacity
                                  /\ p.dir[j].offset = INVALID_SLOT_OFFSET}
  IN  IF free = {} THEN INVALID_SLOT_OFFSET
      ELSE CHOOSE j \in free : \A k \in free : j <= k

\* The loop of insertRecord that looks for a place: the first entry below
\* capacity whose offset is INVALID_SLOT_OFFSET, or INVALID_SLOT_OFFSET.
RECURSIVE FindFreeSlot(_, _)
FindFreeSlot(p, i) ==
  IF i >= p.hdr.capacity THEN INVALID_SLOT_OFFSET
  ELSE IF p.dir[i].offset = INVALID_SLOT_OFFSET THEN i
  ELSE FindFreeSlot(p, i + 1)

\* insertRecord that adds a directory entry even when it reuses a free one
\* (as long as the directory has room for another entry).
insertRecordAlwaysGrows(p, record_data) ==
  LET size_necessary == Len(record_data)
  IN  IF size_necessary = 0
        THEN Result(EmptyDataHeapPage, p, 0, <<>>)
      ELSE IF getFreeSpace(p) < size_necessary
        THEN Result(InsufficientSpaceHeapPage, p, 0, <<>>)
      ELSE
        LET found == FindFreeSlot(p, 0)
            grow  == found = INVALID_SLOT_OFFSET
            free_slot_id == IF grow THEN p.hdr.capacity ELSE found
            p1 == IF grow \/ p.hdr.capacity < DirRoom
                    THEN [p EXCEPT !.hdr.capacity = U32(@ + 1),
                                   !.hdr.free_space_begin = U32(@ + SizeofSlotInfo)]
                    ELSE p
            r  == _insertRecord(p1, free_slot_id, record_data)
        IN  Result(r.st, r.page, free_slot_id, <<>>)

\* insertRecord that tests the record against the bytes between the two
\* regions, without the slot entry a new slot costs.
insertRecordNoSlotCharge(p, record_data) ==
  LET size_necessary == Len(record_data)
  IN  IF size_necessary = 0
        THEN Result(EmptyDataHeapPage, p, 0, <<>>)
      ELSE IF U32(p.hdr.free_space_end - p.hdr.free_space_begin) < size_necessary
        THEN Result(InsufficientSpaceHeapPage, p, 0, <<>>)
      ELSE
        LET found == FindFreeSlot(p, 0)
            grow  == found = INVALID_SLOT_OFFSET
            free_slot_id == IF grow THEN p.hdr.capacity ELSE found
            p1 == IF grow
                    THEN [p EXCEPT !.hdr.capacity = U32(@ + 1),
                                   !.hdr.free_space_begin = U32(@ + SizeofSlotInfo)]
                    ELSE p
            r  == _insertRecord(p1, free_slot_id, record_data)
        IN  Result(r.st, r.page, free_slot_id, <<>>)

\* insertRecord that refuses a record that fills the free space exactly.
insertRecordOffByOne(p, record_data) ==
  LET size_necessary == Len(record_data)
  IN  IF size_necessary = 0
        THEN Result(EmptyDataHeapPage, p, 0, <<>>)
      ELSE IF getFreeSpace(p) <= size_necessary
        THEN Result(InsufficientSpaceHeapPage, p, 0, <<>>)
      ELSE
        LET found == FindFreeSlot(p, 0)
            grow  == found = INVALID_SLOT_OFFSET
            free_slot_id == IF grow THEN p.hdr.capacity ELSE found
            p1 == IF grow
                    THEN [p EXCEPT !.hdr.capacity = U32(@ + 1),
                                   !.hdr.free_space_begin = U32(@ + SizeofSlotInfo)]
                    ELSE p
            r  == _insertRecord(p1, free_slot_id, record_data)
        IN  Result(r.st, r.page, free_slot_id, <<>>)

insertRecord(p, record_data) ==
  LET size_necessary == Len(record_data)
  IN  IF size_necessary = 0
        THEN Result(EmptyDataHeapPage, p, 0, <<>>)
      ELSE IF getFreeSpace(p) < size_necessary
        THEN Result(InsufficientSpaceHeapPage, p, 0, <<>>)
      ELSE
        LET found == FindFreeSlot(p, 0)
            grow  == found = INVALID_SLOT_OFFSET
            free_slot_id == IF grow THEN p.hdr.capacity ELSE found
            p1 == IF grow
                    THEN [p EXCEPT !.hdr.capacity = U32(@ + 1),
                                   !.hdr.free_space_begin = U32(@ + SizeofSlotInfo)]
                    ELSE p
            r  == _insertRecord(p1, free_slot_id, record_data)
        IN  Result(r.st, r.page, free_slot_id, <<>>)

\* getRecord with the copy turned around: the caller's buffer, zero bytes
\* when fresh, is copied over the record in the page.
getRecordCopiesBack(p, slot_id, bufCapacity) ==
  IF slot_id >= p.hdr.capacity
    THEN Result(InvalidSlotIdHeapPage, p, 0, <<>>)
  ELSE IF p.dir[slot_id].offset = INVALID_SLOT_OFFSET
    THEN Result(InvalidSlotIdHeapPage, p, 0, <<>>)
  ELSE IF bufCapacity < p.dir[slot_id].length
    THEN Result(InvalidSizeData, p, 0, <<>>)
  ELSE Result(Ok,
              [p EXCEPT !.data = Memcpy(p.data, p.dir[slot_id].offset,
                                        MkData(p.dir[slot_id].length, 0))],
              p.dir[slot_id].length,
              MkData(p.dir[slot_id].length, 0))

\* getRecord that refuses a buffer exactly as long as the record.
getRecordStrictCapacity(p, slot_id, bufCapacity) ==
  IF slot_id >= p.hdr.capacity
    THEN Result(InvalidSlotIdHeapPage, p, 0, <<>>)
  ELSE IF p.dir[slot_id].offset = INVALID_SLOT_OFFSET
    THEN Result(InvalidSlotIdHeapPage, p, 0, <<>>)
  ELSE IF bufCapacity <= p.dir[slot_id].length
    THEN Result(InvalidSizeData, p, 0, <<>>)
  ELSE Result(Ok, p, p.dir[slot_id].length,
              BytesAt(p, p.dir[slot_id].offset, p.dir[slot_id].length))

getRecord(p, slot_id, bufCapacity) ==
  IF slot_id >= p.hdr.capacity
    THEN Result(InvalidSlotIdHeapPage, p, 0, <<>>)
  ELSE IF p.dir[slot_id].offset = INVALID_SLOT_OFFSET
    THEN Result(InvalidSlotIdHeapPage, p, 0, <<>>)
  ELSE IF bufCapacity < p.dir[slot_id].length
    THEN Result(InvalidSizeData, p, 0, <<>>)
  ELSE Result(Ok, p, p.dir[slot_id].length,
              BytesAt(p, p.dir[slot_id].offset, p.dir[slot_id].length))

\* A shrink loop written with capacity > 1: it never drops the first entry.
ShrunkCapacityKeepsOne(p, capacity) ==
  LET live == {j \in DirIndex : j < capacity /\ p.dir[j].offset # INVALID_SLOT_OFFSET}
  IN  IF live # {} THEN 1 + (CHOOSE j \in live : \A k \in live : k <= j)
      ELSE IF capacity > 0 THEN 1 ELSE 0

\* The loop of deleteRecord that shrinks the slot directory.
RECURSIVE ShrunkCapacity(_, _)
ShrunkCapacity(p, capacity) ==
  IF capacity > 0 /\ p.dir[capacity - 1].offset = INVALID_SLOT_OFFSET
    THEN ShrunkCapacity(p, capacity - 1)
    ELSE capacity

\* A shrink that lowers capacity and leaves free_space_begin where it was.
ShrinkDirectoryKeepsBegin(q) ==
  LET capacity == ShrunkCapacity(q, q.hdr.capacity)
  IN  IF capacity < q.hdr.capacity
        THEN [q EXCEPT !.hdr.capacity = capacity]
        ELSE q

\* A shrink that gives back the space of one entry however many it drops.
ShrinkDirectoryOneEntry(q) ==
  LET capacity == ShrunkCapacity(q, q.hdr.capacity)
  IN  IF capacity < q.hdr.capacity
        THEN [q EXCEPT !.hdr.capacity = capacity,
                       !.hdr.free_space_begin = U32(@ - SizeofSlotInfo)]
        ELSE q

\* A shrink that drops at most one trailing entry (an if for the while).
ShrinkDirectoryOnce(q) ==
  IF q.hdr.capacity > 0 /\ q.dir[q.hdr.capacity - 1].offset = INVALID_SLOT_OFFSET
    THEN [q EXCEPT !.hdr.capacity = @ - 1,
                   !.hdr.free_space_begin = U32(@ - SizeofSlotInfo)]
    ELSE q

\* The tail of deleteRecord: drop the trailing free entries of the directory.
ShrinkDirectory(q) ==
  LET capacity == ShrunkCapacity(q, q.hdr.capacity)
  IN  IF capacity < q.hdr.capacity
        THEN [q EXCEPT !.hdr.capacity = capacity,
                       !.hdr.free_space_begin =
                          U32(@ - (q.hdr.capacity - capacity) * SizeofSlotInfo)]
        ELSE q

deleteRecord(p, slot_id) ==
  IF _getSlotInfoThrows(p, slot_id)
    THEN Result(InvalidSlotIdHeapPage, p, 0, <<>>)
  ELSE IF p.dir[slot_id].offset = INVALID_SLOT_OFFSET \/ slot_id >= p.hdr.capacity
    THEN Result(InvalidSlotIdHeapPage, p, 0, <<>>)
  ELSE
    LET r == _deleteRecord(p, slot_id)
    IN  IF r.st # Ok THEN r
        ELSE Result(Ok, ShrinkDirectory(r.page), r.ret, <<>>)

\* updateRecord that writes a record that is not longer than the old one
\* over the old one and keeps the slot's offset.
updateRecordInPlaceIfFits(p, slot_id, record_data) ==
  IF _getSlotInfoThrows(p, slot_id)
    THEN Result(InvalidSlotIdHeapPage, p, 0, <<>>)
  ELSE IF p.dir[slot_id].offset = INVALID_SLOT_OFFSET \/ slot_id >= p.hdr.capacity
    THEN Result(InvalidSlotIdHeapPage, p, 0, <<>>)
  ELSE IF Len(record_data) = 0
    THEN Result(EmptyDataHeapPage, p, 0, <<>>)
  ELSE IF U32(getFreeSpace(p) + p.dir[slot_id].length) < Len(record_data)
    THEN Result(InsufficientSpaceHeapPage, p, 0, <<>>)
  ELSE IF Len(record_data) <= p.dir[slot_id].length
    THEN Result(Ok, [p EXCEPT !.data = Memcpy(p.data, p.dir[slot_id].offset, record_data),
                              !.dir[slot_id].length = Len(record_data)],
                0, <<>>)
  ELSE
    LET r == _deleteRecord(p, slot_id)
        w == _insertRecord(r.page, slot_id, record_data)
    IN  IF r.st # Ok THEN r ELSE Result(w.st, w.page, r.ret, <<>>)

\* updateRecord without its test of the free space.
updateRecordNoSpaceTest(p, slot_id, record_data) ==
  IF _getSlotInfoThrows(p, slot_id)
    THEN Result(InvalidSlotIdHeapPage, p, 0, <<>>)
  ELSE IF p.dir[slot_id].offset = INVALID_SLOT_OFFSET \/ slot_id >= p.hdr.capacity
    THEN Result(InvalidSlotIdHeapPage, p, 0, <<>>)
  ELSE IF Len(record_data) = 0
    THEN Result(EmptyDataHeapPage, p, 0, <<>>)
  ELSE
    LET r == _deleteRecord(p, slot_id)
        w == _insertRecord(r.page, slot_id, record_data)
    IN  IF r.st # Ok THEN r ELSE Result(w.st, w.page, r.ret, <<>>)

\* updateRecord that stores the new record below the others and leaves the
\* bytes of the old one where they are, without compaction.
updateRecordNoCompaction(p, slot_id, record_data) ==
  IF _getSlotInfoThrows(p, slot_id)
    THEN Result(InvalidSlotIdHeapPage, p, 0, <<>>)
  ELSE IF p.dir[slot_id].offset = INVALID_SLOT_OFFSET \/ slot_id >= p.hdr.capacity
    THEN Result(InvalidSlotIdHeapPage, p, 0, <<>>)
  ELSE IF Len(record_data) = 0
    THEN Result(EmptyDataHeapPage, p, 0, <<>>)
  ELSE IF getFreeSpace(p) < Len(record_data)
    THEN Result(InsufficientSpaceHeapPage, p, 0, <<>>)
  ELSE
    LET w == _insertRecord([p EXCEPT !.hdr.size = U32(@ - 1)], slot_id, record_data)
    IN  Result(w.st, w.page, 0, <<>>)

\* updateRecord that writes a shorter record over the start of the old one.
updateRecordShrinksInPlace(p, slot_id, record_data) ==
  IF _getSlotInfoThrows(p, slot_id)
    THEN Result(InvalidSlotIdHeapPage, p, 0, <<>>)
  ELSE IF p.dir[slot_id].offset = INVALID_SLOT_OFFSET \/ slot_id >= p.hdr.capacity
    THEN Result(InvalidSlotIdHeapPage, p, 0, <<>>)
  ELSE IF Len(record_data) = 0
    THEN Result(EmptyDataHeapPage, p, 0, <<>>)
  ELSE IF U32(getFreeSpace(p) + p.dir[slot_id].length) < Len(record_data)
    THEN Result(InsufficientSpaceHeapPage, p, 0, <<>>)
  ELSE IF Len(record_data) < p.dir[slot_id].length
    THEN Result(Ok, [p EXCEPT !.data = Memcpy(p.data, p.dir[slot_id].offset, record_data),
                              !.dir[slot_id].length = Len(record_data)],
                0, <<>>)
  ELSE
    LET r == _deleteRecord(p, slot_id)
        w == _insertRecord(r.page, slot_id, record_data)
    IN  IF r.st # Ok THEN r ELSE Result(w.st, w.page, r.ret, <<>>)

\* updateRecord that overwrites a record of the same length where it lies.
updateRecordSameLengthInPlace(p, slot_id, record_data) ==
  IF _getSlotInfoThrows(p, slot_id)
    THEN Result(InvalidSlotIdHeapPage, p, 0, <<>>)
  ELSE IF p.dir[slot_id].offset = INVALID_SLOT_OFFSET \/ slot_id >= p.hdr.capacity
    THEN Result(InvalidSlotIdHeapPage, p, 0, <<>>)
  ELSE IF Len(record_data) = 0
    THEN Result(EmptyDataHeapPage, p, 0, <<>>)
  ELSE IF U32(getFreeSpace(p) + p.dir[slot_id].length) < Len(record_data)
    THEN Result(InsufficientSpaceHeapPage, p, 0, <<>>)
  ELSE IF Len(record_data) = p.dir[slot_id].length
    THEN Result(Ok, [p EXCEPT !.data = Memcpy(p.data, p.dir[slot_id].offset, record_data)],
                0, <<>>)
  ELSE
    LET r == _deleteRecord(p, slot_id)
        w == _insertRecord(r.page, slot_id, record_data)
    IN  IF r.st # Ok THEN r ELSE Result(w.st, w.page, r.ret, <<>>)

\* updateRecord that looks at the record before it looks at the slot.
updateRecordEmptyFirst(p, slot_id, record_data) ==
  IF Len(record_data) = 0
    THEN Result(EmptyDataHeapPage, p, 0, <<>>)
  ELSE IF _getSlotInfoThrows(p, slot_id)
    THEN Result(InvalidSlotIdHeapPage, p, 0, <<>>)
  ELSE IF p.dir[slot_id].offset = INVALID_SLOT_OFFSET \/ slot_id >= p.hdr.capacity
    THEN Result(InvalidSlotIdHeapPage, p, 0, <<>>)
  ELSE IF U32(getFreeSpace(p) + p.dir[slot_id].length) < Len(record_data)
    THEN Result(InsufficientSpaceHeapPage, p, 0, <<>>)
  ELSE
    LET r == _deleteRecord(p, slot_id)
        w == _insertRecord(r.page, slot_id, record_data)
    IN  IF r.st # Ok THEN r ELSE Result(w.st, w.page, r.ret, <<>>)

\* updateRecord that deletes the old record before it checks the new one.
updateRecordDeleteFirst(p, slot_id, record_data) ==
  IF _getSlotInfoThrows(p, slot_id)
    THEN Result(InvalidSlotIdHeapPage, p, 0, <<>>)
  ELSE IF p.dir[slot_id].offset = INVALID_SLOT_OFFSET \/ slot_id >= p.hdr.capacity
    THEN Result(InvalidSlotIdHeapPage, p, 0, <<>>)
  ELSE
    LET r == _deleteRecord(p, slot_id)
    IN  IF Len(record_data) = 0
          THEN Result(EmptyDataHeapPage, r.page, 0, <<>>)
        ELSE IF U32(p.hdr.free_space_end - p.hdr.free_space_begin
                      + p.dir[slot_id].length) < Len(record_data)
          THEN Result(InsufficientSpaceHeapPage, r.page, 0, <<>>)
        ELSE
          LET w == _insertRecord(r.page, slot_id, record_data)
          IN  Result(w.st, w.page, r.ret, <<>>)

\* updateRecord that re-inserts through insertRecord, which picks its own slot.
updateRecordViaInsert(p, slot_id, record_data) ==
  IF _getSlotInfoThrows(p, slot_id)
    THEN Result(InvalidSlotIdHeapPage, p, 0, <<>>)
  ELSE IF p.dir[slot_id].offset = INVALID_SLOT_OFFSET \/ slot_id >= p.hdr.capacity
    THEN Result(InvalidSlotIdHeapPage, p, 0, <<>>)
  ELSE IF Len(record_data) = 0
    THEN Result(EmptyDataHeapPage, p, 0, <<>>)
  ELSE IF U32(getFreeSpace(p) + p.dir[slot_id].length) < Len(record_data)
    THEN Result(InsufficientSpaceHeapPage, p, 0, <<>>)
  ELSE
    LET r == _deleteRecord(p, slot_id)
        w == insertRecord(r.page, record_data)
    IN  IF r.st # Ok THEN r ELSE Result(w.st, w.page, r.ret, <<>>)

updateRecord(p, slot_id, record_data) ==
  IF _getSlotInfoThrows(p, slot_id)
    THEN Result(InvalidSlotIdHeapPage, p, 0, <<>>)
  ELSE IF p.dir[slot_id].offset = INVALID_SLOT_OFFSET \/ slot_id >= p.hdr.capacity
    THEN Result(InvalidSlotIdHeapPage, p, 0, <<>>)
  ELSE IF Len(record_data) = 0
    THEN Result(EmptyDataHeapPage, p, 0, <<>>)
  ELSE IF U32(getFreeSpace(p) + p.dir[slot_id].length) < Len(record_data)
    THEN Result(InsufficientSpaceHeapPage, p, 0, <<>>)
  ELSE
    LET r == _deleteRecord(p, slot_id)
        w == _insertRecord(r.page, slot_id, record_data)
    IN  IF r.st # Ok THEN r ELSE Result(w.st, w.page, r.ret, <<>>)

\* ------------------------------------------------ HeapPageScanner methods
\* The result of a scanner call: the page it leaves behind, the slot id it
\* returns and the scanner's cursor after it.
ScanResult(p, ret, cur) == [page |-> p, ret |-> ret, cur_slot |-> cur]

\* A getNext that leaves the cursor on the slot it returns.
ScannerLoopStays(p, cur) ==
  LET live == {j \in DirIndex : j >= cur /\ j < p.hdr.capacity
                                  /\ p.dir[j].offset # INVALID_SLOT_OFFSET}
  IN  IF live # {}
        THEN LET j == CHOOSE j \in live : \A k \in live : j <= k
             IN  ScanResult(p, j, j)
      ELSE IF cur < p.hdr.capacity
        THEN ScanResult(p, INVALID_SLOT_ID, p.hdr.capacity)
        ELSE ScanResult(p, INVALID_SLOT_ID, cur)

\* A getNext that steps over the entry behind the slot it returns.
ScannerLoopSkipsNext(p, cur) ==
  LET live == {j \in DirIndex : j >= cur /\ j < p.hdr.capacity
                                  /\ p.dir[j].offset # INVALID_SLOT_OFFSET}
  IN  IF live # {}
        THEN LET j == CHOOSE j \in live : \A k \in live : j <= k
             IN  ScanResult(p, j, j + 2)
      ELSE IF cur < p.hdr.capacity
        THEN ScanResult(p, INVALID_SLOT_ID, p.hdr.capacity)
        ELSE ScanResult(p, INVALID_SLOT_ID, cur)

\* A getNext that looks at one directory entry only: at a free entry it
\* steps on and reports the end of the directory.
ScannerLoopOneEntry(p, cur) ==
  IF cur < p.hdr.capacity
    THEN IF p.dir[cur].offset # INVALID_SLOT_OFFSET
           THEN ScanResult(p, cur, cur + 1)
           ELSE ScanResult(p, INVALID_SLOT_ID, cur + 1)
    ELSE ScanResult(p, INVALID_SLOT_ID, cur)

\* The while loop of HeapPageScanner::getNext from cursor cur: it stops at
\* the first entry below capacity that is not free, stepping past it, or at
\* capacity.  _getSlotInfo is only reached with cur below capacity.
RECURSIVE ScannerLoop(_, _)
ScannerLoop(p, cur) ==
  IF cur < p.hdr.capacity
    THEN IF p.dir[cur].offset # INVALID_SLOT_OFFSET
           THEN ScanResult(p, cur, cur + 1)
           ELSE ScannerLoop(p, cur + 1)
    ELSE ScanResult(p, INVALID_SLOT_ID, cur)

ScannerGetNext(p, cur) == ScannerLoop(p, cur)

\* The indices getNext hands to _getSlotInfo in one call from cursor cur:
\* the loop reads entry cur while nothing is found and cur is below capacity.
RECURSIVE ScannerReads(_, _)
ScannerReads(p, cur) ==
  IF cur < p.hdr.capacity
    THEN IF p.dir[cur].offset # INVALID_SLOT_OFFSET
           THEN {cur}
           ELSE {cur} \cup ScannerReads(p, cur + 1)
    ELSE {}

\* A reset that rebinds the page and leaves the cursor where it is.
ScannerResetKeepsCursor(p, cur) == ScanResult(p, 0, cur)

ScannerReset(p, cur) == ScanResult(p, 0, 0)

\* n successive getNext() calls from cursor cur on page p, with no other
\* call in between: the slot ids returned, in order, and the cursor left.
RECURSIVE ScanRun(_, _, _)
ScanRun(p, cur, n) ==
  IF n = 0 THEN [rets |-> <<>>, cur_slot |-> cur]
  ELSE LET r    == ScannerGetNext(p, cur)
           rest == ScanRun(r.page, r.cur_slot, n - 1)
       IN  [rets |-> <<r.ret>> \o rest.rets, cur_slot |-> rest.cur_slot]

\* The slot ids below capacity whose entry holds a record.
LiveSlotsOf(p) ==
  {i \in DirIndex : i < p.hdr.capacity /\ p.dir[i].offset # INVALID_SLOT_OFFSET}

\* The record of the scan after a call changed the page into q.
ScanSeesChange(sc, q) ==
  IF sc.finished THEN sc
  ELSE [sc EXCEPT !.steady = @ \cap LiveSlotsOf(q), !.mutated = TRUE]

\* The sequence seq without the slot id s.
Without(seq, s) == SelectSeq(seq, LAMBDA x : x # s)

\* ------------------------------------------------------------ the calls
\* The state is the page, plus what the callers know: expected is the
\* reference copy a caller keeps of what it stored under each slot id (<<>>
\* for none), insertsOnly counts the successful inserts as long as no other
\* call has changed the page (-1 afterwards), and last names the most recent
\* call that changed the page, the slot id it was about and the number of
\* bytes its compaction relocated.  cur_slot is the cursor of the one
\* HeapPageScanner constructed on the page; callers that do not use the
\* scanner leave it alone.  links holds the page numbers the heap-file layer
\* last passed to setPrev and setNext (INVALID_PAGE_NUM for none); callers
\* that do not chain the page leave it alone.  written lists the live slot
\* ids by their last successful write (insertRecord or updateRecord), the
\* most recent first.  scan is the caller's record of the scan in progress
\* since the scanner was constructed or reset: the slot ids getNext()
\* returned, in order; whether getNext() has returned INVALID_SLOT_ID; and,
\* up to that first INVALID_SLOT_ID, the slots that were live after every
\* call and whether a call changed the page; only a caller that keeps such
\* a record writes the first two.  A call that throws, and a call that only reads,
\* hands its result to the caller and leaves the state as it was.
Init ==
  /\ page = initializeHeader
  /\ expected = [i \in DirIndex |-> <<>>]
  /\ insertsOnly = 0
  /\ last = [op |-> "initializeHeader", slot |-> 0, moved |-> 0]
  /\ cur_slot = 0
  /\ links = [prev |-> INVALID_PAGE_NUM, next |-> INVALID_PAGE_NUM]
  /\ written = <<>>
  /\ scan = [returned |-> <<>>, steady |-> {}, mutated |-> FALSE, finished |-> FALSE]

CallInsertRecord ==
  \E d \in DataInputs :
    \E r \in {insertRecord(page, d)} :
        /\ page' = r.page
        /\ last' = IF r.st = Ok THEN [op |-> "insertRecord", slot |-> r.ret, moved |-> 0] ELSE last
        /\ expected' = IF r.st = Ok /\ r.ret \in DirIndex
                         THEN [expected EXCEPT ![r.ret] = d] ELSE expected
        /\ insertsOnly' = IF r.st = Ok /\ insertsOnly >= 0
                            THEN insertsOnly + 1 ELSE insertsOnly
        /\ written' = IF r.st = Ok THEN <<r.ret>> \o written ELSE written
        /\ scan' = IF r.st = Ok THEN ScanSeesChange(scan, r.page) ELSE scan
        /\ UNCHANGED <<cur_slot, links>>

CallUpdateRecord ==
  \E s \in SlotIds, d \in DataInputs :
    \E r \in {updateRecord(page, s, d)} :
        /\ page' = r.page
        /\ last' = IF r.st = Ok THEN [op |-> "updateRecord", slot |-> s, moved |-> r.ret] ELSE last
        /\ expected' = IF r.st = Ok THEN [expected EXCEPT ![s] = d] ELSE expected
        /\ insertsOnly' = IF r.st = Ok THEN -1 ELSE insertsOnly
        /\ written' = IF r.st = Ok THEN <<s>> \o Without(written, s) ELSE written
        /\ scan' = IF r.st = Ok THEN ScanSeesChange(scan, r.page) ELSE scan
        /\ UNCHANGED <<cur_slot, links>>

CallDeleteRecord ==
  \E s \in SlotIds :
    \E r \in {deleteRecord(page, s)} :
        /\ page' = r.page
        /\ last' = IF r.st = Ok THEN [op |-> "deleteRecord", slot |-> s, moved |-> r.ret] ELSE last
        /\ expected' = IF r.st = Ok THEN [expected EXCEPT ![s] = <<>>] ELSE expected
        /\ insertsOnly' = IF r.st = Ok THEN -1 ELSE insertsOnly
        /\ written' = IF r.st = Ok THEN Without(written, s) ELSE written
        /\ scan' = IF r.st = Ok THEN ScanSeesChange(scan, r.page) ELSE scan
        /\ UNCHANGED <<cur_slot, links>>

CallGetRecord ==
  \E s \in SlotIds, c \in BufCapacities :
    /\ page' = getRecord(page, s, c).page
    /\ UNCHANGED <<expected, insertsOnly, last, cur_slot, links, written, scan>>

Next ==
  \/ CallInsertRecord
  \/ CallUpdateRecord
  \/ CallDeleteRecord
  \/ CallGetRecord

Spec == Init /\ [][Next]_vars

\* ------------------------------------------- the calls next to a scanner
\* A caller that holds one HeapPageScanner on the page (cur_slot is its
\* cursor, 0 after construction) and calls the scanner and the getters of
\* the page in between its inserts, updates, deletes and reads.  A getter
\* hands its value to the caller; it reads the header through a pointer and
\* writes nothing.
ScanInsertRecord ==
  \E d \in ScanDataInputs :
    \E r \in {insertRecord(page, d)} :
        /\ page' = r.page
        /\ last' = IF r.st = Ok THEN [op |-> "insertRecord", slot |-> r.ret, moved |-> 0] ELSE last
        /\ expected' = IF r.st = Ok /\ r.ret \in DirIndex
                         THEN [expected EXCEPT ![r.ret] = d] ELSE expected
        /\ insertsOnly' = IF r.st = Ok /\ insertsOnly >= 0
                            THEN insertsOnly + 1 ELSE insertsOnly
        /\ written' = IF r.st = Ok THEN <<r.ret>> \o written ELSE written
        /\ scan' = IF r.st = Ok THEN ScanSeesChange(scan, r.page) ELSE scan
        /\ UNCHANGED <<cur_slot, links>>

ScanUpdateRecord ==
  \E s \in SlotIds, d \in ScanDataInputs :
    \E r \in {updateRecord(page, s, d)} :
        /\ page' = r.page
        /\ last' = IF r.st = Ok THEN [op |-> "updateRecord", slot |-> s, moved |-> r.ret] ELSE last
        /\ expected' = IF r.st = Ok THEN [expected EXCEPT ![s] = d] ELSE expected
        /\ insertsOnly' = IF r.st = Ok THEN -1 ELSE insertsOnly
        /\ written' = IF r.st = Ok THEN <<s>> \o Without(written, s) ELSE written
        /\ scan' = IF r.st = Ok THEN ScanSeesChange(scan, r.page) ELSE scan
        /\ UNCHANGED <<cur_slot, links>>

CallGetFreeSpace ==
  /\ getFreeSpace(page) \in Nat
  /\ UNCHANGED vars

CallIsFull ==
  /\ isFull(page) \in BOOLEAN
  /\ UNCHANGED vars

CallIsEmpty ==
  /\ isEmpty(page) \in BOOLEAN
  /\ UNCHANGED vars

CallGetNumRecs ==
  /\ getNumRecs(page) \in Nat
  /\ UNCHANGED vars

CallGetPrev ==
  /\ getPrev(page) \in Nat
  /\ UNCHANGED vars

CallGetNext ==
  /\ getNext(page) \in Nat
  /\ UNCHANGED vars

CallScannerGetNext ==
  LET r == ScannerGetNext(page, cur_slot)
  IN  /\ page' = r.page
      /\ cur_slot' = r.cur_slot
      /\ UNCHANGED <<expected, insertsOnly, last, links, written, scan>>

CallScannerReset ==
  LET r == ScannerReset(page, cur_slot)
  IN  /\ page' = r.page
      /\ cur_slot' = r.cur_slot
      /\ UNCHANGED <<expected, insertsOnly, last, links, written, scan>>

ScanNext ==
  \/ ScanInsertRecord
  \/ ScanUpdateRecord
  \/ CallDeleteRecord
  \/ CallGetRecord
  \/ CallGetFreeSpace
  \/ CallIsFull
  \/ CallIsEmpty
  \/ CallGetNumRecs
  \/ CallGetPrev
  \/ CallGetNext
  \/ CallScannerGetNext
  \/ CallScannerReset

ScanSpec == Init /\ [][ScanNext]_vars

\* ------------------------------------------- the layout of the page alone
\* A caller whose records all carry the same byte: the header and the slot
\* directory go through every layout they can reach, and the claims about
\* offsets, lengths, counters and outcomes are settled on these pages for
\* the records of every content.
LayoutNext ==
  \/ ScanInsertRecord
  \/ ScanUpdateRecord
  \/ CallDeleteRecord
  \/ CallGetRecord

LayoutSpec == Init /\ [][LayoutNext]_vars

\* ------------------------------- a scan interleaved with changes of the page
\* A caller that keeps a record of its scan: it notes every slot id
\* getNext() hands it and the first INVALID_SLOT_ID, starts a new record at
\* reset, and inserts, updates and deletes records in between the calls.
LoggedInsertRecord ==
  \E d \in InterleavedDataInputs :
    \E r \in {insertRecord(page, d)} :
        /\ page' = r.page
        /\ last' = IF r.st = Ok THEN [op |-> "insertRecord", slot |-> r.ret, moved |-> 0] ELSE last
        /\ expected' = IF r.st = Ok /\ r.ret \in DirIndex
                         THEN [expected EXCEPT ![r.ret] = d] ELSE expected
        /\ insertsOnly' = IF r.st = Ok /\ insertsOnly >= 0
                            THEN insertsOnly + 1 ELSE insertsOnly
        /\ written' = IF r.st = Ok THEN <<r.ret>> \o written ELSE written
        /\ scan' = IF r.st = Ok THEN ScanSeesChange(scan, r.page) ELSE scan
        /\ UNCHANGED <<cur_slot, links>>

LoggedUpdateRecord ==
  \E s \in SlotIds, d \in InterleavedDataInputs :
    \E r \in {updateRecord(page, s, d)} :
        /\ page' = r.page
        /\ last' = IF r.st = Ok THEN [op |-> "updateRecord", slot |-> s, moved |-> r.ret] ELSE last
        /\ expected' = IF r.st = Ok THEN [expected EXCEPT ![s] = d] ELSE expected
        /\ insertsOnly' = IF r.st = Ok THEN -1 ELSE insertsOnly
        /\ written' = IF r.st = Ok THEN <<s>> \o Without(written, s) ELSE written
        /\ scan' = IF r.st = Ok THEN ScanSeesChange(scan, r.page) ELSE scan
        /\ UNCHANGED <<cur_slot, links>>

LoggedScannerGetNext ==
  LET r == ScannerGetNext(page, cur_slot)
  IN  /\ page' = r.page
      /\ cur_slot' = r.cur_slot
      /\ scan' = IF r.ret = INVALID_SLOT_ID
                   THEN [scan EXCEPT !.finished = TRUE]
                   ELSE [scan EXCEPT !.returned = Append(@, r.ret)]
      /\ UNCHANGED <<expected, insertsOnly, last, links, written>>

LoggedScannerReset ==
  LET r == ScannerReset(page, cur_slot)
  IN  /\ page' = r.page
      /\ cur_slot' = r.cur_slot
      /\ scan' = [returned |-> <<>>, steady |-> LiveSlotsOf(r.page),
                  mutated |-> FALSE, finished |-> FALSE]
      /\ UNCHANGED <<expected, insertsOnly, last, links, written>>

InterleavedNext ==
  \/ LoggedInsertRecord
  \/ LoggedUpdateRecord
  \/ CallDeleteRecord
  \/ LoggedScannerGetNext
  \/ LoggedScannerReset

InterleavedSpec == Init /\ [][InterleavedNext]_vars

\* ------------------------------------------ the calls of the heap-file layer
\* A caller that chains the page into a file with setPrev and setNext and
\* reads the links back, in between its inserts, updates, deletes and reads.
CallSetNext ==
  \E n \in PageNums :
    /\ page' = setNext(page, n)
    /\ links' = [links EXCEPT !.next = n]
    /\ UNCHANGED <<expected, insertsOnly, last, cur_slot, written, scan>>

CallSetPrev ==
  \E n \in PageNums :
    /\ page' = setPrev(page, n)
    /\ links' = [links EXCEPT !.prev = n]
    /\ UNCHANGED <<expected, insertsOnly, last, cur_slot, written, scan>>

LinkNext ==
  \/ ScanInsertRecord
  \/ ScanUpdateRecord
  \/ CallDeleteRecord
  \/ CallGetRecord
  \/ CallSetNext
  \/ CallSetPrev
  \/ CallGetNext
  \/ CallGetPrev

LinkSpec == Init /\ [][LinkNext]_vars

\* ------------------------------------------------------------ vocabulary
\* Slot i is live: it lies in the directory and holds a record.
IsLive(p, i) == i < p.hdr.capacity /\ p.dir[i].offset # INVALID_SLOT_OFFSET
LiveSlots(p) == {i \in DirIndex : IsLive(p, i)}
FreeSlots(p) == {i \in DirIndex : i < p.hdr.capacity /\ ~IsLive(p, i)}
\* The bytes of the buffer a live slot's record occupies.
RecordRange(p, i) == {b \in Int : p.dir[i].offset <= b /\ b < p.dir[i].offset + p.dir[i].length}
                       \cap (0 .. (2 * PAGE_SIZE))
RawFree(p) == p.hdr.free_space_end - p.hdr.free_space_begin

\* ----------------------------------------------------------------- C1
\* C1: stable slot ids.  In every reachable state, every live slot id reads
\* back (getRecord into a buffer of PAGE_SIZE bytes) exactly the bytes and the
\* length of the most recent successful insertRecord that returned it or
\* updateRecord on it, whatever compaction has moved since.
StableSlotIds ==
  \A s \in DirIndex :
    IsLive(page, s) =>
      /\ expected[s] # <<>>
      /\ getRecord(page, s, PAGE_SIZE) =
           Result(Ok, page, Len(expected[s]), expected[s])

\* A delete has just relocated the bytes of other records, and two records
\* of different content are still live.
StableSlotIdsWitness ==
  /\ last.op = "deleteRecord"
  /\ last.moved > 0
  /\ \E s, t \in LiveSlots(page) : expected[s] # expected[t]

\* ----------------------------------------------------------------- C2
\* C2: compaction invariant.  In every reachable state the byte ranges of the
\* live slots are pairwise disjoint and their union is exactly
\* [free_space_end, PAGE_SIZE).
CompactionInvariant ==
  /\ \A i, j \in LiveSlots(page) :
       i # j => RecordRange(page, i) \cap RecordRange(page, j) = {}
  /\ UNION {RecordRange(page, i) : i \in LiveSlots(page)} =
       page.hdr.free_space_end .. (PAGE_SIZE - 1)

\* An update has just relocated the bytes of another record, and the page
\* holds three records.
CompactionInvariantWitness ==
  /\ last.op = "updateRecord"
  /\ last.moved > 0
  /\ Cardinality(LiveSlots(page)) = 3

\* ----------------------------------------------------------------- C3
\* C3: region ordering.  In every reachable state, that is after every public
\* call whether it succeeded or threw,
\* sizeof(HeapPageHeader) <= free_space_begin <= free_space_end <= PAGE_SIZE.
RegionOrdering ==
  /\ SizeofHeapPageHeader <= page.hdr.free_space_begin
  /\ page.hdr.free_space_begin <= page.hdr.free_space_end
  /\ page.hdr.free_space_end <= PAGE_SIZE

\* An insert has just used up the last free byte: the slot directory and the
\* record region touch.
RegionOrderingWitness ==
  /\ last.op = "insertRecord"
  /\ page.hdr.free_space_begin = page.hdr.free_space_end
  /\ page.hdr.capacity > 1

\* ----------------------------------------------------------------- C4
\* C4: directory size.  In every reachable state
\* free_space_begin = sizeof(HeapPageHeader) + capacity * sizeof(SlotInfo).
DirectorySize ==
  page.hdr.free_space_begin =
    SizeofHeapPageHeader + page.hdr.capacity * SizeofSlotInfo

\* A delete has just removed two or more trailing directory entries at once
\* and left a live record behind.
DirectorySizeWitness ==
  /\ last.op = "deleteRecord"
  /\ last.slot > page.hdr.capacity
  /\ page.hdr.capacity > 0

\* ----------------------------------------------------------------- C5
\* C5: live count.  In every reachable state the header's size equals the
\* number of directory entries below capacity whose offset is not
\* INVALID_SLOT_OFFSET, size <= capacity, and getNumRecs returns that count.
LiveCount ==
  /\ page.hdr.size = Cardinality(LiveSlots(page))
  /\ page.hdr.size <= page.hdr.capacity
  /\ getNumRecs(page) = Cardinality(LiveSlots(page))

\* An update has just run on a page that has both live and free entries.
LiveCountWitness ==
  /\ last.op = "updateRecord"
  /\ page.hdr.size >= 1
  /\ page.hdr.size < page.hdr.capacity

\* ----------------------------------------------------------------- C6
\* C6: trailing compactness.  In every reachable state, that is after every
\* public call whether it succeeded or threw, if capacity > 0 then the slot at
\* index capacity - 1 is live; free slots lie only at lower indices.
TrailingCompactness ==
  /\ page.hdr.capacity > 0 => IsLive(page, page.hdr.capacity - 1)
  /\ \A i \in FreeSlots(page) : i < page.hdr.capacity - 1

\* A delete of the last directory entry has just shrunk the directory, and
\* a free entry is left below the entry that is now the last.
TrailingCompactnessWitness ==
  /\ last.op = "deleteRecord"
  /\ last.slot >= page.hdr.capacity
  /\ FreeSlots(page) # {}

\* ----------------------------------------------------------------- C7
\* C7: slot entries are well formed.  In every reachable state each live slot
\* below capacity has length >= 1, each free slot below capacity has
\* offset INVALID_SLOT_OFFSET and length 0, and neither insertRecord nor
\* updateRecord accepts a record of length 0.
SlotWellFormed ==
  /\ \A i \in LiveSlots(page) : page.dir[i].length >= 1
  /\ \A i \in FreeSlots(page) :
       page.dir[i].offset = INVALID_SLOT_OFFSET /\ page.dir[i].length = 0
  /\ \A d \in DataInputs :
       Len(d) = 0 =>
         /\ insertRecord(page, d).st # Ok
         /\ \A s \in SlotIds : updateRecord(page, s, d).st # Ok

\* An insert has just reused one of two free entries: a free entry left by
\* a delete lies between live ones.
SlotWellFormedWitness ==
  /\ last.op = "insertRecord"
  /\ insertsOnly = -1
  /\ FreeSlots(page) # {}
  /\ Cardinality(LiveSlots(page)) >= 2

\* ----------------------------------------------------------------- C8
\* C8: insert acceptance.  In every reachable state insertRecord(d) succeeds
\* if and only if d has length >= 1 and getFreeSpace() >= length(d); with
\* length 0 it throws EmptyDataHeapPage and with length > getFreeSpace() it
\* throws InsufficientSpaceHeapPage.
InsertAcceptance ==
  \A d \in DataInputs :
    LET r == insertRecord(page, d)
    IN  /\ r.st = Ok <=> (Len(d) >= 1 /\ getFreeSpace(page) >= Len(d))
        /\ Len(d) = 0 => r.st = EmptyDataHeapPage
        /\ Len(d) > getFreeSpace(page) => r.st = InsufficientSpaceHeapPage

\* A page with a free slot entry that accepts a record of one length and
\* refuses a short record one byte longer.
InsertAcceptanceWitness ==
  /\ last.op = "deleteRecord"
  /\ FreeSlots(page) # {}
  /\ \E d, e \in DataInputs :
       /\ Len(e) = Len(d) + 1
       /\ Len(e) <= MaxRecLen
       /\ insertRecord(page, d).st = Ok
       /\ insertRecord(page, e).st = InsufficientSpaceHeapPage

\* ----------------------------------------------------------------- C9
\* C9: free-space accounting.  In every reachable state getFreeSpace()
\* returns free_space_end - free_space_begin when size < capacity; when
\* size = capacity it returns that difference less sizeof(SlotInfo) if the
\* difference is at least sizeof(SlotInfo), and 0 otherwise.
FreeSpaceAccounting ==
  getFreeSpace(page) =
    IF page.hdr.size < page.hdr.capacity THEN RawFree(page)
    ELSE IF RawFree(page) >= SizeofSlotInfo THEN RawFree(page) - SizeofSlotInfo
    ELSE 0

\* A page whose directory is full and whose free bytes, though there are
\* some, are too few for another slot entry.
FreeSpaceAccountingWitness ==
  /\ last.op = "insertRecord"
  /\ page.hdr.size = page.hdr.capacity
  /\ RawFree(page) > 0
  /\ RawFree(page) < SizeofSlotInfo

\* ---------------------------------------------------------------- C10
\* C10: slot choice on insert.  In every reachable state a successful
\* insertRecord returns the smallest index below capacity whose slot is free
\* and leaves capacity as it is, or, only when no slot below capacity is free,
\* returns the old capacity and appends one directory entry; on a page that
\* has seen only inserts the k-th successful insert returns k - 1.
SlotChoice ==
  \A d \in DataInputs :
    LET r == insertRecord(page, d)
    IN  r.st = Ok =>
          /\ IF FreeSlots(page) # {}
               THEN /\ r.ret \in FreeSlots(page)
                    /\ \A i \in FreeSlots(page) : r.ret <= i
                    /\ r.page.hdr.capacity = page.hdr.capacity
               ELSE /\ r.ret = page.hdr.capacity
                    /\ r.page.hdr.capacity = page.hdr.capacity + 1
          /\ insertsOnly >= 0 => r.ret = insertsOnly

\* An insert has just taken slot 0 although slot 1 was free as well.
SlotChoiceWitness ==
  /\ last.op = "insertRecord"
  /\ last.slot = 0
  /\ 1 \in FreeSlots(page)

\* ---------------------------------------------------------------- C11
\* The most recent call that changed the page was a deleteRecord of a slot
\* that was not the last directory entry (the directory did not shrink).
DeletedInterior ==
  /\ last.op = "deleteRecord"
  /\ last.slot < page.hdr.capacity - 1

\* C11 as stated: slot-reuse determinism.  After a successful deleteRecord(s)
\* where s is not the last directory entry, the next insertRecord whose
\* record fits returns s.
SlotReuseAsStated ==
  DeletedInterior =>
    \A d \in DataInputs :
      LET r == insertRecord(page, d)
      IN  r.st = Ok => r.ret = last.slot

\* C11 as amended: after a successful deleteRecord(s) where s is not the last
\* directory entry, the next insertRecord whose record fits returns the
\* smallest free slot id and leaves capacity as it is; that id is s exactly
\* when no slot below s is free, and is below s otherwise.
SlotReuse ==
  DeletedInterior =>
    \A d \in DataInputs :
      LET r == insertRecord(page, d)
      IN  r.st = Ok =>
            /\ r.ret \in FreeSlots(page)
            /\ \A i \in FreeSlots(page) : r.ret <= i
            /\ r.ret <= last.slot
            /\ r.ret = last.slot <=> (\A i \in FreeSlots(page) : i >= last.slot)
            /\ r.page.hdr.capacity = page.hdr.capacity

\* Slot 0 of a page with two or more records has just been deleted and a
\* record that fits is at hand: the insert will return slot 0.
SlotReuseWitness ==
  /\ DeletedInterior
  /\ FreeSlots(page) = {last.slot}
  /\ \E d \in DataInputs : insertRecord(page, d).st = Ok

\* ---------------------------------------------------------------- C12
\* C12: update acceptance.  In every reachable state, for every live slot s
\* holding a record of length old_len and every record d of length
\* new_len >= 1, updateRecord(s, d) throws InsufficientSpaceHeapPage if and
\* only if (free_space_end - free_space_begin) + old_len < new_len: the
\* update is never charged for a new directory entry, whether or not
\* size = capacity.
UpdateAcceptance ==
  \A s \in LiveSlots(page) :
    \A d \in DataInputs :
      Len(d) >= 1 =>
        (updateRecord(page, s, d).st = InsufficientSpaceHeapPage
           <=> RawFree(page) + page.dir[s].length < Len(d))

\* ---------------------------------------------------------------- C13
\* C13: update effect.  In every reachable state, after a successful
\* updateRecord(s, d), getRecord(s) returns d with its length, slot s is
\* still live under the same id, capacity, size and free_space_begin are as
\* before, the set of live slot ids is as before, and every other live slot
\* reads back the same bytes as before.
UpdateEffect ==
  \A s \in SlotIds :
    \A d \in DataInputs :
      LET r == updateRecord(page, s, d)
      IN  r.st = Ok =>
            /\ getRecord(r.page, s, PAGE_SIZE) = Result(Ok, r.page, Len(d), d)
            /\ IsLive(r.page, s)
            /\ r.page.hdr.capacity = page.hdr.capacity
            /\ r.page.hdr.size = page.hdr.size
            /\ r.page.hdr.free_space_begin = page.hdr.free_space_begin
            /\ LiveSlots(r.page) = LiveSlots(page)
            /\ \A t \in LiveSlots(page) \ {s} :
                 /\ getRecord(r.page, t, PAGE_SIZE).st = Ok
                 /\ getRecord(r.page, t, PAGE_SIZE).ret = getRecord(page, t, PAGE_SIZE).ret
                 /\ getRecord(r.page, t, PAGE_SIZE).out = getRecord(page, t, PAGE_SIZE).out

\* An update has just relocated another record on a page that also has a
\* free entry below the updated slot.
UpdateEffectWitness ==
  /\ last.op = "updateRecord"
  /\ last.moved > 0
  /\ \E i \in FreeSlots(page) : i < last.slot
  /\ Cardinality(LiveSlots(page)) >= 2
  /\ page.dir[last.slot].length > 1

\* ---------------------------------------------------------------- C14
\* C14: atomicity on failure.  In every reachable state, every call that
\* throws (insertRecord with EmptyDataHeapPage or InsufficientSpaceHeapPage;
\* getRecord with InvalidSlotIdHeapPage or InvalidSizeData; deleteRecord with
\* InvalidSlotIdHeapPage; updateRecord with InvalidSlotIdHeapPage,
\* EmptyDataHeapPage or InsufficientSpaceHeapPage) leaves every header field,
\* every slot entry and every record byte of the page as before the call.
AtomicityOnFailure ==
  /\ \A d \in DataInputs :
       insertRecord(page, d).st # Ok => insertRecord(page, d).page = page
  /\ \A s \in SlotIds :
       /\ \A c \in BufCapacities :
            getRecord(page, s, c).st # Ok => getRecord(page, s, c).page = page
       /\ deleteRecord(page, s).st # Ok => deleteRecord(page, s).page = page
       /\ \A d \in DataInputs :
            updateRecord(page, s, d).st # Ok => updateRecord(page, s, d).page = page

\* A page on which every kind of failure can be provoked: a live slot whose
\* record is longer than the smallest buffer and cannot grow to the largest
\* record, an interior free slot, and too little room for the largest record.
AtomicityOnFailureWitness ==
  \E s \in LiveSlots(page), t \in FreeSlots(page), d \in DataInputs :
    /\ insertRecord(page, <<>>).st = EmptyDataHeapPage
    /\ insertRecord(page, d).st = InsufficientSpaceHeapPage
    /\ getRecord(page, t, PAGE_SIZE).st = InvalidSlotIdHeapPage
    /\ getRecord(page, s, 0).st = InvalidSizeData
    /\ deleteRecord(page, t).st = InvalidSlotIdHeapPage
    /\ deleteRecord(page, DirRoom).st = InvalidSlotIdHeapPage
    /\ updateRecord(page, t, d).st = InvalidSlotIdHeapPage
    /\ updateRecord(page, s, <<>>).st = EmptyDataHeapPage
    /\ updateRecord(page, s, d).st = InsufficientSpaceHeapPage

\* ---------------------------------------------------------------- C15
\* getRecord, deleteRecord and updateRecord on slot id s of page p all throw
\* InvalidSlotIdHeapPage, whatever buffer or record the caller passes.
AllRefuse(p, s) ==
  /\ \A c \in BufCapacities : getRecord(p, s, c).st = InvalidSlotIdHeapPage
  /\ deleteRecord(p, s).st = InvalidSlotIdHeapPage
  /\ \A d \in DataInputs : updateRecord(p, s, d).st = InvalidSlotIdHeapPage

\* C15: delete invalidation.  After a successful deleteRecord(s), and until a
\* later insertRecord returns s again, getRecord(s), deleteRecord(s) and
\* updateRecord(s, .) all throw InvalidSlotIdHeapPage, whether s is still
\* below capacity or the directory shrank below it.  The caller's reference
\* copy expected[s] is empty exactly from a delete of s until an insert
\* returns s; the page right after any successful delete is covered directly.
DeleteInvalidation ==
  /\ \A s \in DirIndex : expected[s] = <<>> => AllRefuse(page, s)
  /\ \A s \in SlotIds :
       deleteRecord(page, s).st = Ok => AllRefuse(deleteRecord(page, s).page, s)

\* Two records were deleted and an insert has since reused the lower slot
\* id: the other deleted id is still free below capacity.
DeleteInvalidationWitness ==
  /\ last.op = "insertRecord"
  /\ insertsOnly = -1
  /\ \E s \in FreeSlots(page) : s > last.slot /\ expected[s] = <<>>

\* ---------------------------------------------------------------- C16
\* C16: delete frees space.  In every reachable state and for every live slot
\* s, getFreeSpace() after a successful deleteRecord(s) is strictly greater
\* than getFreeSpace() before it, also when the delete leaves an interior
\* free slot on a page that had size = capacity, or shrinks the directory.
DeleteFreesSpace ==
  \A s \in SlotIds :
    LET r == deleteRecord(page, s)
    IN  /\ s \in LiveSlots(page) <=> r.st = Ok
        /\ r.st = Ok => getFreeSpace(r.page) > getFreeSpace(page)

\* A delete has just left an interior free slot on a page that had
\* size = capacity and fewer free bytes than a slot entry, where getFreeSpace
\* returned 0: the free bytes are still no more than one slot entry.
DeleteFreesSpaceWitness ==
  /\ last.op = "deleteRecord"
  /\ FreeSlots(page) = {last.slot}
  /\ RawFree(page) <= SizeofSlotInfo
  /\ getFreeSpace(page) = RawFree(page)

IsFullAsDocumented ==
  isFull(page) <=>
    \A d \in DataInputs :
      Len(d) >= 1 => insertRecord(page, d).st = InsufficientSpaceHeapPage

\* ---------------------------------------------------------------- C19
\* C19: getRecord outcome.  In every reachable state getRecord(s, buf) throws
\* InvalidSlotIdHeapPage iff s >= capacity or slot s is free; otherwise it
\* throws InvalidSizeData iff buf's capacity is less than the slot's length;
\* otherwise it copies exactly length bytes starting at the slot's offset
\* into buf and sets buf's size to length.  A buffer whose capacity equals
\* the length is accepted.
GetRecordOutcome ==
  \A s \in SlotIds :
    \A c \in BufCapacities :
      LET r == getRecord(page, s, c)
      IN  /\ r.st = InvalidSlotIdHeapPage
               <=> (s >= page.hdr.capacity \/ s \in FreeSlots(page))
          /\ s \in LiveSlots(page) =>
               /\ r.st = InvalidSizeData <=> c < page.dir[s].length
               /\ c >= page.dir[s].length =>
                    /\ r.st = Ok
                    /\ r.ret = page.dir[s].length
                    /\ Len(r.out) = page.dir[s].length
                    /\ \A i \in 1 .. page.dir[s].length :
                         r.out[i] = page.data[page.dir[s].offset + i - 1]

\* A page with a free slot below a live one whose record is read in full by
\* a buffer of exactly its length and refused by a buffer one byte shorter.
GetRecordOutcomeWitness ==
  \E s \in LiveSlots(page), t \in FreeSlots(page), c \in BufCapacities :
    /\ t < s
    /\ c = page.dir[s].length
    /\ c - 1 \in BufCapacities
    /\ getRecord(page, s, c).st = Ok
    /\ getRecord(page, s, c).out = expected[s]
    /\ getRecord(page, s, c - 1).st = InvalidSizeData
    /\ getRecord(page, t, c).st = InvalidSlotIdHeapPage

\* ---------------------------------------------------------------- C20
\* A step of one of the read-only operations: getRecord (successful or
\* throwing), the getters of the page, and the scanner's getNext and reset.
ReadOnlyCall ==
  \/ CallGetRecord
  \/ CallGetFreeSpace
  \/ CallIsFull
  \/ CallIsEmpty
  \/ CallGetNumRecs
  \/ CallGetPrev
  \/ CallGetNext
  \/ CallScannerGetNext
  \/ CallScannerReset

\* C20: read-only operations have no effect.  Every step of getRecord,
\* getFreeSpace, isFull, isEmpty, getNumRecs, getPrev, getNext and of the
\* scanner's getNext and reset leaves every header field, slot entry and
\* record byte of the page unchanged.
ReadOnlyNoEffect == [][ReadOnlyCall => page' = page]_vars

\* The scanner has stepped past a free slot and returned the last live slot
\* of a directory of two or more entries; every live record still reads
\* back what its caller stored.
ReadOnlyNoEffectWitness ==
  /\ cur_slot = page.hdr.capacity
  /\ cur_slot >= 2
  /\ FreeSlots(page) # {}
  /\ \A s \in LiveSlots(page) : getRecord(page, s, PAGE_SIZE).out = expected[s]

\* ---------------------------------------------------------------- C21
\* The live slot ids of page p at or above index i, in ascending order.
RECURSIVE AscendingLive(_, _)
AscendingLive(p, i) ==
  IF i >= DirRoom THEN <<>>
  ELSE IF IsLive(p, i) THEN <<i>> \o AscendingLive(p, i + 1)
  ELSE AscendingLive(p, i + 1)

\* Enough getNext() calls to run past the end of any directory twice over.
ScanCalls == DirRoom + 2

\* C21: scan of an unmodified page.  In every reachable state of the page,
\* the getNext() calls of a freshly constructed or reset scanner (cursor 0),
\* with no mutation of the page in between, return every live slot id
\* exactly once in strictly ascending order, skipping free slots, and then
\* INVALID_SLOT_ID on every later call; the first INVALID_SLOT_ID arrives
\* after exactly size successful results.
ScanUnmodified ==
  LET run  == ScanRun(page, 0, ScanCalls).rets
      live == AscendingLive(page, 0)
  IN  /\ Len(live) = page.hdr.size
      /\ \A k \in 1 .. ScanCalls :
           run[k] = IF k <= Len(live) THEN live[k] ELSE INVALID_SLOT_ID
      /\ \A k \in 1 .. page.hdr.size : run[k] # INVALID_SLOT_ID
      /\ run[page.hdr.size + 1] = INVALID_SLOT_ID
      /\ \A j, k \in 1 .. page.hdr.size : j < k => run[j] < run[k]
      /\ {run[k] : k \in 1 .. page.hdr.size} = LiveSlots(page)

\* The scanner stands at cursor 0 before a page with two live slots above a
\* free one, left by a delete.
ScanUnmodifiedWitness ==
  /\ cur_slot = 0
  /\ last.op = "deleteRecord"
  /\ 0 \in FreeSlots(page)
  /\ page.hdr.size = 2
  /\ ScanRun(page, 0, 3).rets = <<1, 2, INVALID_SLOT_ID>>

\* ---------------------------------------------------------------- C22
\* C22: scanner reset.  reset(page), called at any point of a scan (at the
\* cursor the scanner has in any reachable state: before, in the middle of
\* or after the end of the directory), sets the cursor to 0 and leaves the
\* page alone, so that the getNext() calls that follow produce the complete
\* ascending sequence of live slot ids from the beginning; a full scan of
\* the unmodified page, a reset and a second full scan yield the same
\* sequence.
ScannerResetRestarts ==
  LET r      == ScannerReset(page, cur_slot)
      first  == ScanRun(page, 0, ScanCalls)
      again  == ScannerReset(page, first.cur_slot)
      second == ScanRun(again.page, again.cur_slot, ScanCalls)
      live   == AscendingLive(page, 0)
  IN  /\ r.cur_slot = 0
      /\ r.page = page
      /\ \A k \in 1 .. Len(live) :
           ScanRun(r.page, r.cur_slot, ScanCalls).rets[k] = live[k]
      /\ ScanRun(r.page, r.cur_slot, ScanCalls).rets[Len(live) + 1] = INVALID_SLOT_ID
      /\ second.rets = first.rets

\* The scanner is in the middle of a directory with a live slot behind the
\* cursor and one ahead of it.
ScannerResetRestartsWitness ==
  /\ cur_slot > 0
  /\ cur_slot < page.hdr.capacity
  /\ \E s \in LiveSlots(page) : s < cur_slot
  /\ \E s \in LiveSlots(page) : s >= cur_slot

\* ---------------------------------------------------------------- C23
\* No call has changed the page since initializeHeader().
FreshlyInitialized == last.op = "initializeHeader"

\* C23: initial state.  Right after initializeHeader(), and as long as no
\* call has changed the page, size = capacity = 0,
\* free_space_begin = sizeof(HeapPageHeader), free_space_end = PAGE_SIZE,
\* prev_page = next_page = INVALID_PAGE_NUM, and getFreeSpace() =
\* PAGE_SIZE - sizeof(HeapPageHeader) - sizeof(SlotInfo) = MAX_RECORD_SIZE.
InitialState ==
  FreshlyInitialized =>
    /\ page.hdr.size = 0
    /\ page.hdr.capacity = 0
    /\ page.hdr.free_space_begin = SizeofHeapPageHeader
    /\ page.hdr.free_space_end = PAGE_SIZE
    /\ page.hdr.prev_page = INVALID_PAGE_NUM
    /\ page.hdr.next_page = INVALID_PAGE_NUM
    /\ getPrev(page) = INVALID_PAGE_NUM
    /\ getNext(page) = INVALID_PAGE_NUM
    /\ getFreeSpace(page) = PAGE_SIZE - SizeofHeapPageHeader - SizeofSlotInfo
    /\ getFreeSpace(page) = MAX_RECORD_SIZE

\* The page right after initializeHeader(): empty, with room for one record
\* of MAX_RECORD_SIZE bytes.
InitialStateWitness ==
  /\ FreshlyInitialized
  /\ page = initializeHeader
  /\ getNumRecs(page) = 0
  /\ getFreeSpace(page) = MAX_RECORD_SIZE

\* ---------------------------------------------------------------- C24
\* C24: maximum record boundary.  On a freshly initialized page insertRecord
\* of MAX_RECORD_SIZE + 1 bytes throws InsufficientSpaceHeapPage and changes
\* nothing, while insertRecord of exactly MAX_RECORD_SIZE bytes succeeds with
\* slot id 0 and leaves capacity = size = 1, free_space_begin =
\* free_space_end = sizeof(HeapPageHeader) + sizeof(SlotInfo),
\* getFreeSpace() = 0 and isFull() true.
MaxRecordBoundary ==
  FreshlyInitialized =>
    \A d \in DataInputs :
      LET r == insertRecord(page, d)
      IN  /\ Len(d) = MAX_RECORD_SIZE + 1 =>
               /\ r.st = InsufficientSpaceHeapPage
               /\ r.page = page
          /\ Len(d) = MAX_RECORD_SIZE =>
               /\ r.st = Ok
               /\ r.ret = 0
               /\ r.page.hdr.capacity = 1
               /\ r.page.hdr.size = 1
               /\ r.page.hdr.free_space_begin = SizeofHeapPageHeader + SizeofSlotInfo
               /\ r.page.hdr.free_space_end = SizeofHeapPageHeader + SizeofSlotInfo
               /\ getFreeSpace(r.page) = 0
               /\ isFull(r.page)

\* The first insert on the page has stored a record of MAX_RECORD_SIZE
\* bytes in slot 0: the directory and the record fill the page.
MaxRecordBoundaryWitness ==
  /\ last.op = "insertRecord"
  /\ insertsOnly = 1
  /\ page.dir[0].length = MAX_RECORD_SIZE
  /\ page.hdr.free_space_begin = page.hdr.free_space_end
  /\ isFull(page)

\* ---------------------------------------------------------------- C25
\* C25: page links are opaque and independent.  In every reachable state
\* getPrev() and getNext() return the value most recently passed to setPrev()
\* and setNext() (INVALID_PAGE_NUM if none since initializeHeader);
\* setPrev and setNext change no other header field, slot entry or record
\* byte; and insertRecord, updateRecord, deleteRecord and getRecord never
\* change prev_page or next_page.
PageLinks ==
  /\ getPrev(page) = links.prev
  /\ getNext(page) = links.next
  /\ \A n \in PageNums :
       /\ setPrev(page, n) = [page EXCEPT !.hdr.prev_page = n]
       /\ setNext(page, n) = [page EXCEPT !.hdr.next_page = n]
       /\ getPrev(setPrev(page, n)) = n
       /\ getNext(setPrev(page, n)) = getNext(page)
       /\ getNext(setNext(page, n)) = n
       /\ getPrev(setNext(page, n)) = getPrev(page)
  /\ \A d \in ScanDataInputs :
       /\ insertRecord(page, d).page.hdr.prev_page = page.hdr.prev_page
       /\ insertRecord(page, d).page.hdr.next_page = page.hdr.next_page
       /\ \A s \in SlotIds :
            /\ updateRecord(page, s, d).page.hdr.prev_page = page.hdr.prev_page
            /\ updateRecord(page, s, d).page.hdr.next_page = page.hdr.next_page
  /\ \A s \in SlotIds :
       /\ deleteRecord(page, s).page.hdr.prev_page = page.hdr.prev_page
       /\ deleteRecord(page, s).page.hdr.next_page = page.hdr.next_page
       /\ \A c \in BufCapacities :
            /\ getRecord(page, s, c).page.hdr.prev_page = page.hdr.prev_page
            /\ getRecord(page, s, c).page.hdr.next_page = page.hdr.next_page

\* The page was chained with two different page numbers, prev_page set and
\* next_page set, and records were inserted, updated and deleted since:
\* the last call that changed the records was a delete that relocated bytes.
PageLinksWitness ==
  /\ links.prev \in PageNums
  /\ links.next \in PageNums
  /\ links.prev # links.next
  /\ last.op = "deleteRecord"
  /\ last.moved > 0
  /\ page.hdr.size >= 1

\* ---------------------------------------------------------------- C26
\* C26: error precedence.  In every reachable state insertRecord of an empty
\* record throws EmptyDataHeapPage however little space is left; updateRecord
\* on a slot id that is not live throws InvalidSlotIdHeapPage whether the
\* record is empty, too long or fine, on a live slot it throws
\* EmptyDataHeapPage for an empty record, and InsufficientSpaceHeapPage only
\* for a non-empty record on a live slot; getRecord on a slot id that is not
\* live throws InvalidSlotIdHeapPage however small the buffer, and
\* InvalidSizeData only on a live slot.
ErrorPrecedence ==
  /\ \A d \in DataInputs :
       \A r \in {insertRecord(page, d)} :
           /\ Len(d) = 0 => r.st = EmptyDataHeapPage
           /\ r.st = InsufficientSpaceHeapPage => Len(d) > 0
  /\ \A s \in SlotIds :
       /\ \A d \in DataInputs :
            \A r \in {updateRecord(page, s, d)} :
                /\ s \notin LiveSlots(page) => r.st = InvalidSlotIdHeapPage
                /\ (s \in LiveSlots(page) /\ Len(d) = 0) => r.st = EmptyDataHeapPage
                /\ r.st = EmptyDataHeapPage => s \in LiveSlots(page)
                /\ r.st = InsufficientSpaceHeapPage =>
                     (s \in LiveSlots(page) /\ Len(d) > 0)
                /\ (s \in LiveSlots(page) /\ Len(d) > RawFree(page) + page.dir[s].length)
                     => r.st = InsufficientSpaceHeapPage
       /\ \A c \in BufCapacities :
            \A r \in {getRecord(page, s, c)} :
                /\ s \notin LiveSlots(page) => r.st = InvalidSlotIdHeapPage
                /\ r.st = InvalidSizeData => s \in LiveSlots(page)

\* A page without a free byte and with a free slot below a live one: an
\* empty record meets a page without space, and an empty or oversized record
\* or an empty buffer meets a slot id that is not live.
ErrorPrecedenceWitness ==
  /\ RawFree(page) = 0
  /\ \E t \in FreeSlots(page), s \in LiveSlots(page) :
       /\ insertRecord(page, <<>>).st = EmptyDataHeapPage
       /\ insertRecord(page, MkData(1, 1)).st = InsufficientSpaceHeapPage
       /\ updateRecord(page, t, <<>>).st = InvalidSlotIdHeapPage
       /\ updateRecord(page, t, MkData(MAX_RECORD_SIZE, 1)).st = InvalidSlotIdHeapPage
       /\ updateRecord(page, s, <<>>).st = EmptyDataHeapPage
       /\ getRecord(page, t, 0).st = InvalidSlotIdHeapPage

\* ---------------------------------------------------------------- C27
\* C27: empty page collapse.  In every reachable state size = 0 iff
\* capacity = 0 iff free_space_end = PAGE_SIZE; and a successful deleteRecord
\* of the only live record, whatever its slot id and whatever free slots lie
\* below it, leaves size = 0, capacity = 0, free_space_begin =
\* sizeof(HeapPageHeader), free_space_end = PAGE_SIZE and isEmpty() true.
EmptyPageCollapse ==
  /\ (page.hdr.size = 0) <=> (page.hdr.capacity = 0)
  /\ (page.hdr.capacity = 0) <=> (page.hdr.free_space_end = PAGE_SIZE)
  /\ \A s \in SlotIds :
       LET r == deleteRecord(page, s)
       IN  (r.st = Ok /\ page.hdr.size = 1) =>
             /\ r.page.hdr.size = 0
             /\ r.page.hdr.capacity = 0
             /\ r.page.hdr.free_space_begin = SizeofHeapPageHeader
             /\ r.page.hdr.free_space_end = PAGE_SIZE
             /\ isEmpty(r.page)

\* The page right after the delete of its only record, which sat in the last
\* directory entry above two free ones.
EmptyPageCollapseWitness ==
  /\ last.op = "deleteRecord"
  /\ last.slot = DirRoom - 1
  /\ last.slot >= 2
  /\ page.hdr.size = 0
  /\ page.hdr.capacity = 0
  /\ isEmpty(page)

\* ---------------------------------------------------------------- C28
\* C28: delete compaction step.  A successful deleteRecord(s) of a record at
\* (off, len) raises free_space_end by exactly len and decrements size by
\* one; every other live slot keeps its length, has len added to its offset
\* when its offset was below off and keeps its offset when it was above off;
\* when off = free_space_end no other slot's offset changes.
DeleteCompactionStep ==
  \A s \in SlotIds :
    LET r   == deleteRecord(page, s)
        off == page.dir[s].offset
        len == page.dir[s].length
    IN  r.st = Ok =>
          /\ r.page.hdr.free_space_end = page.hdr.free_space_end + len
          /\ r.page.hdr.size = page.hdr.size - 1
          /\ \A i \in LiveSlots(page) \ {s} :
               /\ r.page.dir[i].length = page.dir[i].length
               /\ page.dir[i].offset < off =>
                    r.page.dir[i].offset = page.dir[i].offset + len
               /\ page.dir[i].offset > off =>
                    r.page.dir[i].offset = page.dir[i].offset
               /\ off = page.hdr.free_space_end =>
                    r.page.dir[i].offset = page.dir[i].offset

\* The page right after the delete of a record that lay between two others:
\* the bytes below it were relocated and they are fewer than the bytes of the
\* records that remain, so a record above it remains as well.
DeleteCompactionStepWitness ==
  /\ last.op = "deleteRecord"
  /\ last.slot \in FreeSlots(page)
  /\ last.moved > 0
  /\ last.moved < PAGE_SIZE - page.hdr.free_space_end
  /\ page.hdr.size = 2

\* ---------------------------------------------------------------- C29
\* C29: directory shrink.  After a successful deleteRecord(s) capacity is one
\* plus the highest index of a slot that is still live (0 if none), and
\* free_space_begin has dropped by sizeof(SlotInfo) for every entry removed
\* (one delete may remove several); a delete of a slot below a live slot of
\* higher index leaves capacity and free_space_begin unchanged.
DirectoryShrink ==
  \A s \in SlotIds :
    LET r    == deleteRecord(page, s)
        live == LiveSlots(page) \ {s}
        top  == IF live = {} THEN 0
                ELSE 1 + (CHOOSE j \in live : \A k \in live : k <= j)
    IN  r.st = Ok =>
          /\ r.page.hdr.capacity = top
          /\ LiveSlots(r.page) = live
          /\ r.page.hdr.free_space_begin =
               page.hdr.free_space_begin
                 - (page.hdr.capacity - r.page.hdr.capacity) * SizeofSlotInfo
          /\ (\E j \in live : j > s) =>
               /\ r.page.hdr.capacity = page.hdr.capacity
               /\ r.page.hdr.free_space_begin = page.hdr.free_space_begin

\* The page right after one delete took two entries off the directory: the
\* deleted slot lay above a free one, and a live record remains below both.
DirectoryShrinkWitness ==
  /\ last.op = "deleteRecord"
  /\ last.slot > page.hdr.capacity
  /\ page.hdr.size >= 1
  /\ page.hdr.free_space_begin =
       SizeofHeapPageHeader + page.hdr.capacity * SizeofSlotInfo

\* ---------------------------------------------------------------- C30
\* C30: insert effect.  A successful insertRecord of L bytes lowers
\* free_space_end by exactly L, stores the record at the new free_space_end
\* (the returned slot has that offset and length L and holds the bytes),
\* increments size by one, grows capacity by one and free_space_begin by
\* sizeof(SlotInfo) exactly when size = capacity held before the call, and
\* leaves the offset, length and bytes of every slot that was live unchanged.
InsertEffect ==
  \A d \in DataInputs :
    LET r == insertRecord(page, d)
        L == Len(d)
        q == r.page
    IN  r.st = Ok =>
          /\ q.hdr.free_space_end = page.hdr.free_space_end - L
          /\ r.ret \in DirIndex
          /\ q.dir[r.ret] = [offset |-> q.hdr.free_space_end, length |-> L]
          /\ BytesAt(q, q.hdr.free_space_end, L) = d
          /\ q.hdr.size = page.hdr.size + 1
          /\ IF page.hdr.size = page.hdr.capacity
               THEN /\ q.hdr.capacity = page.hdr.capacity + 1
                    /\ q.hdr.free_space_begin = page.hdr.free_space_begin + SizeofSlotInfo
               ELSE /\ q.hdr.capacity = page.hdr.capacity
                    /\ q.hdr.free_space_begin = page.hdr.free_space_begin
          /\ \A i \in LiveSlots(page) :
               /\ q.dir[i] = page.dir[i]
               /\ BytesAt(q, q.dir[i].offset, q.dir[i].length)
                    = BytesAt(page, page.dir[i].offset, page.dir[i].length)

\* The page right after an insert that reused a free entry below a live one:
\* the directory did not grow, the new record is the lowest one, and the
\* records that were live before are all still there.
InsertEffectWitness ==
  /\ last.op = "insertRecord"
  /\ last.slot + 1 < page.hdr.capacity
  /\ page.dir[last.slot].offset = page.hdr.free_space_end
  /\ page.hdr.size = page.hdr.capacity
  /\ page.hdr.size >= 2
  /\ BytesAt(page, page.dir[last.slot].offset, page.dir[last.slot].length)
       = expected[last.slot]

\* ---------------------------------------------------------------- C31
\* C31: update placement.  After a successful updateRecord(s, d) that
\* replaces a record of length old_len by one of length new_len,
\* free_space_end is its old value + old_len - new_len and slot s's offset is
\* the new free_space_end, below the offset of every other live record; when
\* new_len > old_len the slot's new offset is strictly less than its old
\* offset and its length differs.
UpdatePlacement ==
  \A s \in SlotIds, d \in DataInputs :
    \A r \in {updateRecord(page, s, d)} :
      LET q       == r.page
          old_len == page.dir[s].length
          new_len == Len(d)
      IN  r.st = Ok =>
            /\ q.hdr.free_space_end = page.hdr.free_space_end + old_len - new_len
            /\ q.dir[s].offset = q.hdr.free_space_end
            /\ \A i \in LiveSlots(q) \ {s} : q.dir[s].offset < q.dir[i].offset
            /\ new_len > old_len =>
                 /\ q.dir[s].offset < page.dir[s].offset
                 /\ q.dir[s].length # page.dir[s].length

\* A page on which a record that is not the lowest one can be replaced by a
\* longer one: the update succeeds and moves it below the record that was
\* below it.
UpdatePlacementWitness ==
  \E s \in LiveSlots(page), t \in LiveSlots(page), d \in DataInputs :
    LET r == updateRecord(page, s, d)
    IN  /\ page.dir[t].offset < page.dir[s].offset
        /\ Len(d) > page.dir[s].length
        /\ r.st = Ok
        /\ r.page.dir[s].offset = r.page.hdr.free_space_end
        /\ r.page.dir[s].offset < r.page.dir[t].offset

\* ---------------------------------------------------------------- C32
\* C32 as stated: whenever updateRecord replaces a record by a strictly
\* shorter one, the slot's offset after the update differs from its offset
\* before.
ShrinkingUpdateRelocatesAsStated ==
  \A s \in SlotIds, d \in DataInputs :
    LET r == updateRecord(page, s, d)
    IN  (r.st = Ok /\ Len(d) < page.dir[s].length) =>
          r.page.dir[s].offset # page.dir[s].offset

\* C32, amended: a successful updateRecord that replaces a record of length
\* old_len at offset off by one of length new_len < old_len leaves the slot
\* at old free_space_end + old_len - new_len; that is its old offset exactly
\* when the records below it took old_len - new_len bytes together, and a
\* different offset otherwise (a higher one when it was the lowest record).
ShrinkingUpdateRelocates ==
  \A s \in SlotIds, d \in DataInputs :
    \A r \in {updateRecord(page, s, d)} :
      LET off   == page.dir[s].offset
          below == off - page.hdr.free_space_end
          drop  == page.dir[s].length - Len(d)
      IN  (r.st = Ok /\ drop > 0) =>
            /\ r.page.dir[s].offset = page.hdr.free_space_end + drop
            /\ (r.page.dir[s].offset = off) <=> (below = drop)
            /\ below = 0 => r.page.dir[s].offset > off

\* A page on which a shortening update leaves a record where it was: the
\* record is not the lowest one, the bytes below it are as many as it loses,
\* and the successful update hands it its old offset again.
ShrinkingUpdateRelocatesWitness ==
  \E s \in LiveSlots(page), d \in DataInputs :
    LET r == updateRecord(page, s, d)
    IN  /\ Len(d) < page.dir[s].length
        /\ page.dir[s].offset > page.hdr.free_space_end
        /\ r.st = Ok
        /\ r.page.dir[s].offset = page.dir[s].offset
        /\ r.page.dir[s].offset = r.page.hdr.free_space_end

\* ---------------------------------------------------------------- C33
\* C33: update is delete-then-insert.  In every reachable state with no free
\* slot (size = capacity), whenever updateRecord(s, d) succeeds,
\* deleteRecord(s) followed by insertRecord(d) succeeds as well, the insert
\* returns s, and the page it leaves (header, slot directory, bytes) is the
\* page the update leaves.
UpdateIsDeleteThenInsert ==
  page.hdr.size = page.hdr.capacity =>
    \A s \in SlotIds, d \in DataInputs :
      \A u \in {updateRecord(page, s, d)} :
        u.st = Ok =>
          \A del \in {deleteRecord(page, s)} :
            \A ins \in {insertRecord(del.page, d)} :
              /\ del.st = Ok
              /\ ins.st = Ok
              /\ ins.ret = s
              /\ ins.page.hdr = u.page.hdr
              /\ ins.page.dir = u.page.dir
              /\ ins.page.data = u.page.data

\* A page without a free slot on which both shapes of the equivalence occur:
\* an update of the last slot, whose delete shrinks the directory and whose
\* insert grows it again, and an update of a slot below it, whose insert
\* reuses the entry the delete freed.
UpdateIsDeleteThenInsertWitness ==
  /\ page.hdr.size = page.hdr.capacity
  /\ page.hdr.capacity >= 2
  /\ \E d \in DataInputs :
       LET top == page.hdr.capacity - 1
       IN  /\ updateRecord(page, top, d).st = Ok
           /\ deleteRecord(page, top).page.hdr.capacity < page.hdr.capacity
           /\ insertRecord(deleteRecord(page, top).page, d).page
                = updateRecord(page, top, d).page
           /\ updateRecord(page, 0, d).st = Ok
           /\ deleteRecord(page, 0).page.hdr.capacity = page.hdr.capacity
           /\ insertRecord(deleteRecord(page, 0).page, d).ret = 0

\* ---------------------------------------------------------------- C35
\* C35: record size bound.  In every reachable state getFreeSpace() is at
\* most MAX_RECORD_SIZE and equals it only on an empty page, no live record
\* is longer than MAX_RECORD_SIZE, and insertRecord and updateRecord refuse
\* every record longer than MAX_RECORD_SIZE.
RecordSizeBound ==
  /\ getFreeSpace(page) <= MAX_RECORD_SIZE
  /\ getFreeSpace(page) = MAX_RECORD_SIZE => isEmpty(page)
  /\ \A i \in LiveSlots(page) : page.dir[i].length <= MAX_RECORD_SIZE
  /\ \A d \in DataInputs :
       Len(d) > MAX_RECORD_SIZE =>
         /\ insertRecord(page, d).st = InsufficientSpaceHeapPage
         /\ \A s \in LiveSlots(page) :
              updateRecord(page, s, d).st = InsufficientSpaceHeapPage

\* A page that is empty again after a delete: getFreeSpace() is back at
\* MAX_RECORD_SIZE, a record of that length is accepted and one byte more is
\* refused.
RecordSizeBoundWitness ==
  /\ last.op = "deleteRecord"
  /\ isEmpty(page)
  /\ getFreeSpace(page) = MAX_RECORD_SIZE
  /\ insertRecord(page, MkData(MAX_RECORD_SIZE, 1)).st = Ok
  /\ insertRecord(page, MkData(MAX_RECORD_SIZE + 1, 1)).st = InsufficientSpaceHeapPage

\* ---------------------------------------------------------------- C38
\* The guard of the early return of _deleteRecord for slot slot_id.
DoNotCompact(p, slot_id) ==
  U32(p.dir[slot_id].offset + p.dir[slot_id].length) = p.hdr.free_space_end

\* C38: the early return of _deleteRecord is dead.  In every reachable state
\* every live slot has offset >= free_space_end and length >= 1, so the guard
\* offset + length = free_space_end is false for every slot deleteRecord or
\* updateRecord hands to _deleteRecord, and every delete takes the memmove
\* path, relocating offset - free_space_end bytes (0 for the lowest record).
EarlyReturnDead ==
  \A s \in LiveSlots(page) :
    /\ page.dir[s].offset >= page.hdr.free_space_end
    /\ page.dir[s].length >= 1
    /\ ~DoNotCompact(page, s)
    /\ \A del \in {deleteRecord(page, s)} :
         /\ del.st = Ok
         /\ del.ret = page.dir[s].offset - page.hdr.free_space_end
    /\ \A d \in DataInputs :
         \A upd \in {updateRecord(page, s, d)} :
           upd.st = Ok => upd.ret = page.dir[s].offset - page.hdr.free_space_end

\* The page right after the delete of its lowest record, with another record
\* still on it: the delete went through the memmove path with 0 bytes.
EarlyReturnDeadWitness ==
  /\ last.op = "deleteRecord"
  /\ last.moved = 0
  /\ page.hdr.size >= 1
  /\ \A i \in LiveSlots(page) : ~DoNotCompact(page, i)

\* ---------------------------------------------------------------- C34
\* C34: physical order follows write recency.  In every reachable state the
\* slots with a last successful write are the live slots, and of two live
\* slots the one written later (by insertRecord or updateRecord) lies at the
\* lower offset; a successful deleteRecord or updateRecord of a slot leaves
\* the address order of the other live records as it was.
WriteRecencyOrder ==
  /\ {written[k] : k \in 1 .. Len(written)} = LiveSlots(page)
  /\ Len(written) = page.hdr.size
  /\ \A j \in 1 .. Len(written), k \in 1 .. Len(written) :
       j < k => page.dir[written[j]].offset < page.dir[written[k]].offset
  /\ \A s \in LiveSlots(page) :
       \A others \in {LiveSlots(page) \ {s}}, del \in {deleteRecord(page, s)} :
           /\ del.st = Ok
           /\ \A a \in others, b \in others :
                (page.dir[a].offset < page.dir[b].offset)
                  <=> (del.page.dir[a].offset < del.page.dir[b].offset)
           /\ \A d \in DataInputs :
                \A upd \in {updateRecord(page, s, d)} :
                    upd.st = Ok =>
                      \A a \in others, b \in others :
                        (page.dir[a].offset < page.dir[b].offset)
                          <=> (upd.page.dir[a].offset < upd.page.dir[b].offset)

\* A full directory right after an update of a record that was not the
\* lowest one: the updated slot now lies lowest, and of the other two the one
\* written later, which has the higher slot id, lies below the other.
WriteRecencyOrderWitness ==
  /\ last.op = "updateRecord"
  /\ Len(written) = DirRoom
  /\ written[1] = last.slot
  /\ last.moved > 0
  /\ written[2] > written[3]
  /\ page.dir[written[1]].offset = page.hdr.free_space_end
  /\ page.dir[written[2]].offset < page.dir[written[3]].offset

\* ---------------------------------------------------------------- C36
\* C36: scanner safety under interleaved changes.  With inserts, updates and
\* deletes between the getNext() calls, in every reachable state the next
\* getNext() returns INVALID_SLOT_ID or a slot that is live and below
\* capacity now and greater than every id returned since the last reset, so
\* the ids returned between two resets are strictly increasing; and the
\* call reads no directory entry at or above the current capacity, also
\* when the directory has shrunk below the cursor.
ScannerSafety ==
  LET r == ScannerGetNext(page, cur_slot)
  IN  /\ r.ret # INVALID_SLOT_ID =>
           /\ r.ret < page.hdr.capacity
           /\ IsLive(page, r.ret)
           /\ \A k \in 1 .. Len(scan.returned) : scan.returned[k] < r.ret
      /\ r.page = page
      /\ \A j \in 1 .. Len(scan.returned), k \in 1 .. Len(scan.returned) :
           j < k => scan.returned[j] < scan.returned[k]
      /\ \A k \in 1 .. Len(scan.returned) : scan.returned[k] < cur_slot
      /\ \A i \in ScannerReads(page, cur_slot) : i < page.hdr.capacity
      /\ cur_slot > page.hdr.capacity =>
           (ScannerReads(page, cur_slot) = {} /\ r.ret = INVALID_SLOT_ID)

\* A scan that has returned two slots, after which a delete shrank the
\* directory below the cursor: the next getNext() reads no entry.
ScannerSafetyWitness ==
  /\ Len(scan.returned) >= 2
  /\ scan.mutated
  /\ last.op = "deleteRecord"
  /\ cur_slot > page.hdr.capacity
  /\ page.hdr.capacity >= 1
  /\ ScannerGetNext(page, cur_slot).ret = INVALID_SLOT_ID

\* ---------------------------------------------------------------- C37
\* C37: scanner completeness under interleaved changes.  Once getNext() has
\* returned INVALID_SLOT_ID, every slot that was live after each call since
\* the scanner was constructed or reset occurs exactly once among the ids
\* that scan returned, whatever inserts, updates and deletes were interleaved.
ScannerCompleteness ==
  scan.finished =>
    \A s \in scan.steady :
      Cardinality({k \in 1 .. Len(scan.returned) : scan.returned[k] = s}) = 1

\* A finished scan during which the page was changed: a slot that stayed
\* live throughout is among the ids returned and was the last one updated,
\* and another id was returned for a slot that did not stay live.
ScannerCompletenessWitness ==
  /\ scan.finished
  /\ scan.mutated
  /\ last.op = "updateRecord"
  /\ last.slot \in scan.steady
  /\ \E k \in 1 .. Len(scan.returned) : scan.returned[k] = last.slot
  /\ \E k \in 1 .. Len(scan.returned) : scan.returned[k] \notin scan.steady

====
